---- MODULE Spec2Model ----
(***************************************************************************)
(* pd-notes: a book of pandas recipes written as notebook chapters.        *)
(*                                                                         *)
(* Part I   (SpecBook)  runs the code cells of one chapter top to bottom   *)
(*          in a fresh session and tracks the session's namespace: which   *)
(*          table every name is bound to, which columns it has, and the    *)
(*          source line that last wrote each column and the rows.          *)
(* Part II  (SpecJoin)  evaluates the join recipes of the join chapter on  *)
(*          concrete small tables.                                         *)
(* Part III (SpecPivot) evaluates pivot on concrete small tables.          *)
(* Part IV  (SpecTop)   evaluates the top-n-per-group recipes.             *)
(* Part V   (SpecGroup) evaluates groupby agg and transform.               *)
(* Part VI  (SpecSort)  sorts a table with ties.                           *)
(* Part VII (SpecAssign) evaluates DataFrame.assign with lambdas.          *)
(* Part VIII (SpecBind) binds the rows of a dictionary of tables.          *)
(***************************************************************************)
EXTENDS Integers, Sequences, FiniteSets, TLC

VARIABLES chapter, pc, env, err,                  \* Part I
          scen, df1, df2, by, op, out, printed,   \* Part II
          df, names, ran, wide, shown, raised,    \* Part III
          sample, recipe, picked                  \* Part IV and later

bookVars == <<chapter, pc, env, err>>

joinVars == <<scen, df1, df2, by, op, out, printed>>

pivotVars == <<df, names, ran, wide, shown, raised>>

topVars == <<sample, recipe, picked>>

vars == <<chapter, pc, env, err, scen, df1, df2, by, op, out, printed,
          df, names, ran, wide, shown, raised, sample, recipe, picked>>

(***************************************************************************)
(* Part I.  Statements of a chapter.                                       *)
(*   cell   number of the code cell (``` block) within the chapter         *)
(*   line   source line of the statement                                   *)
(*   op     "new"    name = pd.DataFrame({...}) built from literals        *)
(*          "derive" name = expression over other tables                   *)
(*          "read"   expression statement                                  *)
(*          "setcol" name[col] = expression (in place)                     *)
(*          "rename" name.columns = ... (in place)                         *)
(*          "sortin" name.sort_values(..., inplace=True)                   *)
(*   var    the name bound or changed                                      *)
(*   cols   columns created, as <<name, dtype>>                            *)
(*   bases  tables whose columns a derived table inherits                  *)
(*   minus  columns dropped from a derived table                           *)
(*   reads  <<table, column>> pairs the statement reads                    *)
(*   uses   tables the statement reads as a whole                          *)
(*   eq     <<table, column, table, column>> key pairs merged on           *)
(*   try    the statement is the body of a try with a bare except          *)
(***************************************************************************)
Stmt(c, l, o, v, cs, bs, mi, rd, us, e, t) ==
    [cell |-> c, line |-> l, op |-> o, var |-> v, cols |-> cs, bases |-> bs,
     minus |-> mi, reads |-> rd, uses |-> us, eq |-> e, try |-> t]

New(c, l, v, cs) == Stmt(c, l, "new", v, cs, {}, {}, {}, {}, {}, FALSE)

Derive(c, l, v, bs, cs, mi, rd) == Stmt(c, l, "derive", v, cs, bs, mi, rd, bs, {}, FALSE)

Read(c, l, us, rd) == Stmt(c, l, "read", "", <<>>, {}, {}, rd, us, {}, FALSE)

SetCol(c, l, v, cs, rd) == Stmt(c, l, "setcol", v, cs, {}, {}, rd, {v}, {}, FALSE)

(* pd.merge(a, b, on=k): reads both key columns and compares them *)
OnKey(a, b, k) == {<<a, k, b, k>>}

KeyReads(e) == {<<q[1], q[2]>> : q \in e} \cup {<<q[3], q[4]>> : q \in e}

MergeRead(c, l, e) ==
    Stmt(c, l, "read", "", <<>>, {}, {}, KeyReads(e),
         {q[1] : q \in e} \cup {q[3] : q \in e}, e, FALSE)

MergeDerive(c, l, v, e, cs, mi) ==
    Stmt(c, l, "derive", v, cs, {q[1] : q \in e} \cup {q[3] : q \in e}, mi,
         KeyReads(e), {q[1] : q \in e} \cup {q[3] : q \in e}, e, FALSE)

Try(s) == [s EXCEPT !.try = TRUE]

Rename(c, l, v, cs) == Stmt(c, l, "rename", v, cs, {}, {}, {}, {v}, {}, FALSE)

SortIn(c, l, v, rd) == Stmt(c, l, "sortin", v, <<>>, {}, {}, rd, {v}, {}, FALSE)

(* an expression over the columns ks of one table v *)
Of(v, ks) == {<<v, k>> : k \in ks}

Get(c, l, v, ks) == Read(c, l, {v}, Of(v, ks))

(***************************************************************************)
(* The join chapter ("Joining DataFrames").                                *)
(***************************************************************************)
JoinChapter == <<
    \* Basic Joins
    New(1, 52, "employees", <<<<"employee_id", "int">>, <<"name", "str">>,
                              <<"department_id", "int">>, <<"salary", "int">>>>),
    New(1, 59, "departments", <<<<"department_id", "int">>, <<"department_name", "str">>,
                                <<"location", "str">>>>),
    Read(1, 66, {"employees"}, {}),
    Read(2, 71, {"departments"}, {}),
    MergeRead(3, 77, OnKey("employees", "departments", "department_id")),
    MergeRead(4, 83, OnKey("employees", "departments", "department_id")),
    MergeRead(5, 89, OnKey("employees", "departments", "department_id")),
    MergeRead(6, 95, OnKey("employees", "departments", "department_id")),
    \* Joining on Multiple Columns
    New(7, 104, "sales", <<<<"year", "int">>, <<"quarter", "str">>, <<"region", "str">>,
                           <<"sales_amount", "int">>>>),
    New(7, 111, "targets", <<<<"year", "int">>, <<"quarter", "str">>, <<"region", "str">>,
                             <<"target_amount", "int">>>>),
    MergeRead(7, 120, OnKey("sales", "targets", "year") \cup OnKey("sales", "targets", "quarter")
                      \cup OnKey("sales", "targets", "region")),
    \* Joining with Different Column Names
    New(8, 129, "employees2", <<<<"emp_id", "int">>, <<"emp_name", "str">>, <<"dept_code", "int">>>>),
    New(8, 135, "departments2", <<<<"department_id", "int">>, <<"department", "str">>>>),
    MergeRead(8, 142, {<<"employees2", "dept_code", "departments2", "department_id">>}),
    MergeDerive(9, 150, "result", {<<"employees2", "dept_code", "departments2", "department_id">>},
                <<>>, {}),
    Read(9, 154, {"result"}, {<<"result", "department_id">>}),
    \* Handling Duplicate Column Names
    New(10, 163, "df1", <<<<"id", "int">>, <<"name", "str">>, <<"value", "int">>, <<"date", "date">>>>),
    New(10, 170, "df2", <<<<"id", "int">>, <<"value", "int">>, <<"status", "str">>>>),
    MergeRead(10, 178, OnKey("df1", "df2", "id")),
    \* Semi and Anti Joins
    New(11, 187, "customers", <<<<"customer_id", "int">>, <<"name", "str">>, <<"city", "str">>>>),
    New(11, 193, "orders", <<<<"order_id", "int">>, <<"customer_id", "int">>, <<"amount", "int">>>>),
    Derive(11, 201, "customers_with_orders", {"customers"}, <<>>, {},
           {<<"customers", "customer_id">>, <<"orders", "customer_id">>}),
    Read(11, 202, {"customers_with_orders"}, {}),
    Derive(12, 208, "customers_without_orders", {"customers"}, <<>>, {},
           {<<"customers", "customer_id">>, <<"orders", "customer_id">>}),
    Read(12, 209, {"customers_without_orders"}, {}),
    Derive(13, 214, "semi_join_result", {"customers"}, <<>>, {},
           {<<"customers", "customer_id">>, <<"orders", "customer_id">>}),
    Read(13, 217, {"semi_join_result"}, {}),
    \* Cross Joins
    New(14, 226, "sizes", <<<<"size", "str">>>>),
    New(14, 227, "colors", <<<<"color", "str">>>>),
    SetCol(14, 231, "sizes", <<<<"key", "int">>>>, {}),
    SetCol(14, 232, "colors", <<<<"key", "int">>>>, {}),
    MergeDerive(14, 233, "cross_joined", OnKey("sizes", "colors", "key"), <<>>, {"key"}),
    Read(14, 234, {"cross_joined"}, {}),
    Derive(15, 240, "cross_join_alt", {}, <<<<"size", "str">>, <<"color", "str">>>>, {},
           {<<"sizes", "size">>, <<"colors", "color">>}),
    Read(15, 244, {"cross_join_alt"}, {}),
    \* Joining with Index
    New(16, 253, "products_indexed", <<<<"product_name", "str">>, <<"price", "float">>>>),
    New(16, 258, "inventory_indexed", <<<<"quantity", "int">>, <<"warehouse", "str">>>>),
    Read(16, 265, {"products_indexed", "inventory_indexed"}, {}),
    New(17, 270, "sales_by_product", <<<<"product_id", "str">>, <<"units_sold", "int">>,
                                       <<"date", "date">>>>),
    Read(17, 277, {"sales_by_product", "products_indexed"}, {<<"sales_by_product", "product_id">>}),
    \* Multiple DataFrames Join
    New(18, 288, "employees", <<<<"emp_id", "int">>, <<"name", "str">>, <<"dept_id", "int">>,
                                <<"manager_id", "int">>>>),
    New(18, 295, "departments", <<<<"dept_id", "int">>, <<"dept_name", "str">>, <<"budget", "int">>>>),
    New(18, 301, "managers", <<<<"manager_id", "int">>, <<"manager_name", "str">>,
                               <<"level", "str">>>>),
    MergeDerive(18, 311, "result", OnKey("employees", "departments", "dept_id")
                                   \cup OnKey("employees", "managers", "manager_id"), <<>>, {}),
    Read(18, 315, {"result"}, {}),
    MergeDerive(19, 329, "result_reduce", OnKey("employees", "departments", "dept_id")
                                          \cup OnKey("employees", "managers", "manager_id"), <<>>, {}),
    \* Inequality Joins
    New(20, 344, "events", <<<<"event_id", "int">>, <<"start_time", "date">>, <<"end_time", "date">>,
                             <<"event_name", "str">>>>),
    New(20, 353, "timestamps", <<<<"check_time", "date">>, <<"person", "str">>>>),
    SetCol(20, 361, "events", <<<<"key", "int">>>>, {}),
    SetCol(20, 362, "timestamps", <<<<"key", "int">>>>, {}),
    MergeDerive(20, 363, "cross", OnKey("events", "timestamps", "key"), <<>>, {"key"}),
    Derive(20, 366, "result", {}, <<<<"person", "str">>, <<"event_name", "str">>,
                                    <<"check_time", "date">>>>, {},
           {<<"cross", "check_time">>, <<"cross", "start_time">>, <<"cross", "end_time">>,
            <<"cross", "person">>, <<"cross", "event_name">>}),
    Read(20, 370, {"result"}, {}),
    \* Joining with Different Data Types
    New(21, 379, "df_int", <<<<"id", "int">>, <<"value", "int">>>>),
    New(21, 384, "df_str", <<<<"id", "str">>, <<"category", "str">>>>),
    Try(MergeDerive(21, 391, "result", OnKey("df_int", "df_str", "id"), <<>>, {})),
    SetCol(21, 397, "df_str", <<<<"id", "int">>>>, {<<"df_str", "id">>}),
    MergeRead(21, 398, OnKey("df_int", "df_str", "id")),
    \* Performance Optimization
    New(22, 409, "large_df1", <<<<"key", "int">>, <<"value1", "float">>>>),
    New(22, 414, "large_df2", <<<<"key", "int">>, <<"value2", "float">>>>),
    MergeDerive(22, 423, "result1", OnKey("large_df1", "large_df2", "key"), <<>>, {}),
    Derive(22, 428, "large_df1_sorted", {"large_df1"}, <<>>, {}, {<<"large_df1", "key">>}),
    Derive(22, 429, "large_df2_sorted", {"large_df2"}, <<>>, {}, {<<"large_df2", "key">>}),
    MergeDerive(22, 430, "result2", OnKey("large_df1_sorted", "large_df2_sorted", "key"), <<>>, {}),
    Derive(22, 435, "df1_indexed", {"large_df1"}, <<>>, {"key"}, {<<"large_df1", "key">>}),
    Derive(22, 436, "df2_indexed", {"large_df2"}, <<>>, {"key"}, {<<"large_df2", "key">>}),
    Derive(22, 437, "result3", {"df1_indexed", "df2_indexed"}, <<>>, {}, {}),
    \* Validation and Debugging Joins
    New(23, 447, "main_df", <<<<"id", "int">>, <<"name", "str">>>>),
    New(23, 452, "lookup_df", <<<<"id", "int">>, <<"value", "int">>>>),
    Read(23, 458, {"main_df"}, {<<"main_df", "id">>}),
    Read(23, 459, {"lookup_df"}, {<<"lookup_df", "id">>}),
    MergeDerive(23, 462, "result", OnKey("main_df", "lookup_df", "id"), <<<<"_merge", "cat">>>>, {}),
    Read(23, 463, {"result"}, {}),
    Read(24, 469, {"result"}, {<<"result", "_merge">>}),
    \* Creating Tidyverse-Style Join Functions: left_join(employees, departments, by=...)
    MergeRead(25, 512, OnKey("employees", "departments", "department_id"))
>>

(***************************************************************************)
(* The aggregation chapter ("Grouping & Aggregation").                     *)
(***************************************************************************)
AggChapter == <<
    New(1, 50, "df", <<<<"department", "str">>, <<"employee", "str">>, <<"salary", "int">>,
                       <<"years_exp", "int">>, <<"performance", "float">>>>),
    Get(1, 60, "df", {"department", "salary"}),
    Get(2, 70, "df", {"department", "salary"}),
    Get(3, 80, "df", {"department", "salary", "performance", "years_exp"}),
    Get(4, 103, "df", {"department", "salary", "performance", "years_exp"}),
    Derive(5, 108, "result", {}, <<<<"salary", "float">>, <<"performance", "float">>,
                                   <<"years_exp", "float">>>>, {},
           Of("df", {"department", "salary", "performance", "years_exp"})),
    Rename(5, 109, "result", <<<<"salary_mean", "float">>, <<"salary_std", "float">>,
                               <<"salary_min", "float">>, <<"salary_max", "float">>,
                               <<"performance_mean", "float">>, <<"performance_min", "float">>,
                               <<"performance_max", "float">>, <<"years_exp_sum", "float">>,
                               <<"years_exp_mean", "float">>>>),
    Read(5, 110, {"result"}, {}),
    Get(6, 130, "df", {"department", "salary", "performance"}),
    Get(7, 138, "df", {"department", "salary", "performance", "years_exp"}),
    \* Transform vs Aggregate
    SetCol(8, 153, "df", <<<<"dept_avg_salary", "float">>>>, Of("df", {"department", "salary"})),
    SetCol(8, 154, "df", <<<<"salary_vs_dept_avg", "float">>>>,
           Of("df", {"salary", "dept_avg_salary"})),
    Read(8, 155, {"df"}, {}),
    Derive(9, 164, "df_transformed", {"df"}, <<<<"dept_rank", "float">>,
               <<"pct_of_dept_total", "float">>, <<"z_score", "float">>>>, {},
           Of("df", {"department", "salary"})),
    Read(9, 169, {"df_transformed"}, {}),
    \* Multiple Grouping Variables
    New(10, 178, "df_multi", <<<<"region", "str">>, <<"department", "str">>, <<"quarter", "str">>,
                               <<"revenue", "int">>, <<"costs", "int">>>>),
    Get(10, 194, "df_multi", {"region", "department", "revenue", "costs"}),
    Derive(11, 203, "region_summary", {}, <<<<"revenue", "int">>, <<"costs", "int">>,
                                            <<"level", "str">>>>, {},
           Of("df_multi", {"region", "revenue", "costs"})),
    Derive(11, 209, "region_dept_summary", {}, <<<<"revenue", "int">>, <<"costs", "int">>>>, {},
           Of("df_multi", {"region", "department", "revenue", "costs"})),
    Read(11, 214, {"region_dept_summary"}, {}),
    \* Filter and Slice Groups
    Derive(12, 226, "df_filtered", {"df"}, <<>>, {}, Of("df", {"department", "salary"})),
    Read(12, 227, {"df_filtered"}, {}),
    Get(13, 235, "df", {"performance", "department"}),
    Get(14, 244, "df", {"department", "years_exp"}),
    \* Window Functions with Groups
    New(15, 253, "df_sales", <<<<"date", "date">>, <<"region", "str">>, <<"sales", "int">>>>),
    Derive(15, 265, "df_sales_calc", {"df_sales"}, <<<<"cumsum_sales", "int">>,
               <<"rolling_avg_3m", "float">>, <<"pct_of_region_total", "float">>>>, {},
           Of("df_sales", {"region", "date", "sales"})),
    Read(15, 273, {"df_sales_calc"}, {}),
    \* Pivot Tables as Grouped Aggregations
    Derive(16, 286, "pivot_result", {}, <<<<"Q1", "int">>, <<"Q2", "int">>, <<"Q3", "int">>>>, {},
           Of("df_multi", {"revenue", "region", "quarter"})),
    Read(16, 292, {"pivot_result"}, {}),
    Derive(17, 297, "pivot_multi", {}, <<<<"revenue", "int">>, <<"costs", "float">>>>, {},
           Of("df_multi", {"revenue", "costs", "region", "department"})),
    Read(17, 304, {"pivot_multi"}, {}),
    \* Advanced Groupby Operations
    New(18, 314, "df_complex", <<<<"store_id", "str">>, <<"month", "date">>, <<"product", "str">>,
                                 <<"units_sold", "int">>, <<"price", "float">>>>),
    SetCol(18, 321, "df_complex", <<<<"revenue", "float">>>>,
           Of("df_complex", {"units_sold", "price"})),
    Derive(18, 324, "result", {}, <<<<"total_units", "int">>, <<"avg_price", "float">>,
               <<"total_revenue", "float">>, <<"months_active", "int">>, <<"best_month", "str">>>>, {},
           Of("df_complex", {"store_id", "product", "units_sold", "price", "revenue", "month"})),
    Read(18, 335, {"result"}, {}),
    \* Named Aggregations Pattern
    Derive(19, 353, "summary", {}, <<<<"n_employees", "int">>, <<"avg_salary", "float">>,
               <<"sd_salary", "float">>, <<"median_performance", "float">>,
               <<"salary_per_year_exp", "float">>>>, {},
           Of("df", {"department", "employee", "salary", "performance", "years_exp"})),
    Read(19, 364, {"summary"}, {}),
    Derive(20, 379, "result_chain", {}, <<<<"avg_salary", "float">>, <<"avg_performance", "float">>,
               <<"count", "int">>>>, {},
           Of("df", {"years_exp", "department", "salary", "performance", "employee"})),
    Read(20, 390, {"result_chain"}, {}),
    \* Groupby with Time Series
    New(21, 400, "df_ts", <<<<"date", "date">>, <<"store", "str">>, <<"sales", "float">>>>),
    Derive(21, 412, "df_ts_summary", {}, <<<<"monthly_sales", "float">>, <<"days_active", "int">>,
               <<"best_day_sales", "float">>>>, {},
           Of("df_ts", {"date", "store", "sales"})),
    Read(21, 426, {"df_ts_summary"}, {}),
    \* Creating Tidyverse-Style Helper Functions
    Get(22, 451, "df", {"department", "salary"}),
    Get(23, 456, "df", {"department", "salary"}),
    \* Performance Tips
    New(24, 466, "large_df", <<<<"group", "str">>, <<"value", "float">>>>),
    Derive(24, 475, "result1", {}, <<<<"mean", "float">>, <<"sum", "float">>, <<"std", "float">>>>, {},
           Of("large_df", {"group", "value"})),
    Derive(24, 480, "mean_result", {}, <<<<"value", "float">>>>, {}, Of("large_df", {"group", "value"})),
    Derive(24, 481, "sum_result", {}, <<<<"value", "float">>>>, {}, Of("large_df", {"group", "value"})),
    Derive(24, 482, "std_result", {}, <<<<"value", "float">>>>, {}, Of("large_df", {"group", "value"}))
>>

(***************************************************************************)
(* The sorting chapter ("Arranging & Sorting").                            *)
(***************************************************************************)
SortChapter == <<
    New(1, 51, "df", <<<<"name", "str">>, <<"department", "str">>, <<"salary", "int">>,
                       <<"years_exp", "int">>, <<"performance", "float">>, <<"hire_date", "date">>>>),
    Get(1, 63, "df", {"salary"}),
    Get(2, 69, "df", {"salary"}),
    Derive(3, 75, "df_copy", {"df"}, <<>>, {}, {}),
    SortIn(3, 76, "df_copy", Of("df_copy", {"salary"})),
    Read(3, 77, {"df_copy"}, {}),
    \* Multiple Column Sorting
    Get(4, 87, "df", {"department", "salary"}),
    Get(5, 93, "df", {"department", "salary"}),
    Get(6, 99, "df", {"performance", "years_exp", "salary"}),
    \* Sorting with Missing Values
    New(7, 109, "df_missing", <<<<"product", "str">>, <<"price", "float">>, <<"rating", "float">>,
                                <<"stock", "float">>>>),
    Get(7, 118, "df_missing", {"price"}),
    Get(8, 124, "df_missing", {"price"}),
    Get(9, 129, "df_missing", {"price", "rating"}),
    \* Sorting by Index
    Derive(10, 140, "df_indexed", {"df"}, <<>>, {"name"}, Of("df", {"name"})),
    Read(10, 141, {"df_indexed"}, {}),
    Read(11, 147, {"df_indexed"}, {}),
    Read(12, 152, {"df_indexed"}, {}),
    Derive(13, 157, "df_multi", {"df"}, <<>>, {"department", "name"}, Of("df", {"department", "name"})),
    Read(13, 158, {"df_multi"}, {}),
    \* Sorting with Custom Functions
    Get(14, 168, "df", {"name"}),
    Get(15, 174, "df", {"name"}),
    Derive(16, 180, "df_mixed_case", {"df"}, <<>>, {}, {}),
    SetCol(16, 181, "df_mixed_case", <<<<"department", "str">>>>, {}),
    SetCol(16, 182, "df_mixed_case", <<<<"department", "str">>>>, {}),
    Get(16, 184, "df_mixed_case", {"department"}),
    \* Sorting in Method Chains
    Derive(17, 197, "result", {}, <<<<"name", "str">>, <<"department", "str">>,
               <<"performance", "float">>, <<"salary", "int">>>>, {},
           Of("df", {"salary", "performance", "name", "department"})),
    Read(17, 202, {"result"}, {}),
    Get(18, 211, "df", {"department", "salary"}),
    \* Rank and Order Operations
    SetCol(19, 225, "df", <<<<"salary_rank", "float">>>>, Of("df", {"salary"})),
    Get(19, 226, "df", {"name", "salary", "salary_rank"}),
    Derive(20, 235, "df_ranks", {"df"}, <<<<"rank_min", "float">>, <<"rank_avg", "float">>,
               <<"rank_max", "float">>, <<"rank_dense", "float">>>>, {}, Of("df", {"salary"})),
    Get(20, 241, "df_ranks", {"name", "salary", "rank_min", "rank_avg", "rank_max", "rank_dense"}),
    SetCol(21, 249, "df", <<<<"dept_salary_rank", "float">>>>, Of("df", {"department", "salary"})),
    Get(21, 250, "df", {"department", "dept_salary_rank"}),
    \* Top N Operations
    Get(22, 260, "df", {"salary"}),
    Get(23, 266, "df", {"performance"}),
    Get(24, 273, "df", {"performance", "salary"}),
    Get(25, 281, "df", {"salary", "department"}),
    \* Sorting Different Data Types
    New(26, 290, "df_types", <<<<"text", "str">>, <<"numbers", "float">>, <<"dates", "date">>,
                               <<"categories", "cat">>, <<"booleans", "bool">>>>),
    Get(26, 302, "df_types", {"dates"}),
    Get(27, 307, "df_types", {"categories"}),
    Get(28, 319, "df_types", {"text"}),
    \* Stable Sorting
    New(29, 328, "df_ties", <<<<"group", "str">>, <<"value", "int">>, <<"order", "int">>>>),
    Get(29, 336, "df_ties", {"value"}),
    Get(30, 341, "df_ties", {"order", "value"}),
    \* Performance Considerations
    New(31, 354, "large_df", <<<<"A", "float">>, <<"B", "str">>, <<"C", "int">>>>),
    Derive(31, 364, "sorted1", {"large_df"}, <<>>, {}, Of("large_df", {"A"})),
    Derive(31, 369, "sorted2", {"large_df"}, <<>>, {}, Of("large_df", {"B", "A"})),
    Derive(31, 374, "large_df_copy", {"large_df"}, <<>>, {}, {}),
    SortIn(31, 375, "large_df_copy", Of("large_df_copy", {"A"})),
    \* Advanced Sorting Patterns
    Get(32, 386, "df", {"salary", "years_exp"}),
    Derive(33, 396, "dept_avg", {}, <<<<"salary", "float">>>>, {}, Of("df", {"department", "salary"})),
    Read(33, 397, {"df", "dept_avg"}, Of("df", {"salary"})),
    Get(34, 405, "df", {"department"}),
    \* Creating Tidyverse-Style Helper Functions
    Get(35, 433, "df", {"department", "salary"}),
    Get(36, 446, "df", {"salary"})
>>

(***************************************************************************)
(* The column selection chapter ("Selecting Columns").                     *)
(***************************************************************************)
SelectChapter == <<
    New(1, 49, "df", <<<<"name", "str">>, <<"age", "int">>, <<"salary", "int">>,
                       <<"department", "str">>, <<"years_experience", "int">>,
                       <<"performance_rating", "float">>>>),
    Get(1, 61, "df", {"name"}),
    Get(1, 67, "df", {"name", "age", "salary"}),
    Get(1, 73, "df", {"name", "department"}),
    Get(2, 82, "df", {"name", "age"}),
    Get(2, 85, "df", {"name", "age"}),
    Get(2, 88, "df", {"name", "age"}),
    Read(2, 91, {"df"}, {}),
    Get(2, 95, "df", {"name", "age"}),
    Get(2, 99, "df", {"name", "age"}),
    Get(2, 103, "df", {"name", "age"}),
    Get(3, 114, "df", {"name", "department"}),
    Read(3, 120, {"df"}, {}),
    Get(3, 125, "df", {"salary"}),
    \* Pattern-Based Selection
    New(4, 134, "df_wide", <<<<"id", "int">>, <<"test_score_math", "int">>,
                             <<"test_score_english", "int">>, <<"test_score_science", "int">>,
                             <<"final_grade_math", "int">>, <<"final_grade_english", "int">>,
                             <<"student_name", "str">>>>),
    Read(4, 147, {"df_wide"}, {}),
    Read(4, 153, {"df_wide"}, {}),
    Read(4, 159, {"df_wide"}, {}),
    Read(4, 164, {"df_wide"}, {}),
    \* Selecting by Data Type
    New(5, 173, "df_mixed", <<<<"name", "str">>, <<"age", "int">>, <<"salary", "float">>,
                              <<"is_manager", "bool">>, <<"department", "str">>,
                              <<"hire_date", "date">>, <<"employee_id", "int">>>>),
    Read(5, 186, {"df_mixed"}, {}),
    Read(5, 191, {"df_mixed"}, {}),
    Read(5, 196, {"df_mixed"}, {}),
    Read(5, 201, {"df_mixed"}, {}),
    \* Creating Tidyverse-Style Helper Functions
    Get(6, 233, "df", {"name", "age", "salary"}),
    Read(6, 237, {"df_wide"}, {}),
    \* Excluding Columns
    Get(7, 248, "df", {"age", "salary"}),
    Read(7, 252, {"df"}, {}),
    Get(7, 256, "df", {"name", "department", "years_experience", "performance_rating"}),
    Read(7, 262, {"df"}, {}),
    Get(7, 263, "df", {"name", "age", "salary", "department", "years_experience"}),
    \* Reordering Columns
    Get(8, 274, "df", {"department", "name", "age", "salary", "years_experience",
                       "performance_rating"}),
    Get(8, 285, "df", {"department", "name"}),
    Read(8, 290, {"df"}, {}),
    \* Renaming While Selecting
    Get(9, 301, "df", {"name", "department"}),
    Derive(9, 309, "numeric_df", {"df"}, <<>>, {"name", "department"}, {}),
    Rename(9, 310, "numeric_df", <<<<"num_age", "int">>, <<"num_salary", "int">>,
                                   <<"num_years_experience", "int">>,
                                   <<"num_performance_rating", "float">>>>),
    Read(9, 311, {"numeric_df"}, {}),
    \* Column Selection in Method Chains
    New(10, 321, "df_large", <<<<"employee_id", "int">>, <<"first_name", "str">>,
                               <<"last_name", "str">>, <<"age", "int">>, <<"salary_base", "int">>,
                               <<"salary_bonus", "int">>, <<"dept_code", "str">>,
                               <<"dept_name", "str">>, <<"years_exp", "int">>,
                               <<"perf_q1", "float">>, <<"perf_q2", "float">>,
                               <<"perf_q3", "float">>, <<"perf_q4", "float">>>>),
    Derive(10, 339, "result", {"df_large"}, <<>>,
           {"employee_id", "age", "dept_code", "years_exp", "perf_q1", "perf_q2", "perf_q3",
            "perf_q4"}, {}),
    Read(10, 343, {"result"}, {}),
    Derive(10, 350, "result", {"df_large"}, <<<<"perf_avg", "float">>>>,
           {"age", "salary_base", "salary_bonus", "dept_code", "dept_name", "years_exp"}, {}),
    Read(10, 356, {"result"}, {}),
    \* Advanced Column Selection Patterns
    Get(11, 366, "df", {"age", "salary", "years_experience", "performance_rating"}),
    Get(11, 369, "df", {"salary"}),
    Derive(11, 374, "df_missing", {"df_large"}, <<>>, {}, {}),
    SetCol(11, 375, "df_missing", <<<<"age", "float">>>>, {}),
    SetCol(11, 376, "df_missing", <<<<"salary_base", "float">>>>, {}),
    Read(11, 379, {"df_missing"}, {}),
    Read(11, 382, {"df_missing"}, {}),
    \* Performance Considerations (large_df has col_0 .. col_99; the three read are kept)
    New(12, 391, "large_df", <<<<"col_0", "float">>, <<"col_10", "float">>, <<"col_20", "float">>>>),
    Get(12, 402, "large_df", {"col_0", "col_10", "col_20"}),
    Get(12, 408, "large_df", {"col_0", "col_10", "col_20"}),
    Read(12, 414, {"large_df"}, {})
>>

(***************************************************************************)
(* The string chapter ("Python & Pandas String/Regex Operations            *)
(* Cheatsheet"); cells 1, 2, 5 and 7 work on plain strings only.           *)
(***************************************************************************)
StringChapter == <<
    New(3, 522, "df", <<<<"name", "str">>, <<"email", "str">>>>),
    Get(3, 528, "df", {"name"}),
    Get(3, 529, "df", {"name"}),
    Get(3, 530, "df", {"name"}),
    Get(3, 531, "df", {"name"}),
    Get(3, 534, "df", {"name"}),
    Get(3, 535, "df", {"email"}),
    Get(3, 536, "df", {"name"}),
    Get(3, 537, "df", {"name"}),
    Get(3, 540, "df", {"name"}),
    Get(3, 541, "df", {"name"}),
    Get(3, 544, "df", {"name"}),
    Get(3, 545, "df", {"name"}),
    Get(3, 546, "df", {"email"}),
    Get(3, 547, "df", {"email"}),
    Get(3, 550, "df", {"name"}),
    Get(3, 551, "df", {"name"}),
    Get(3, 552, "df", {"email"}),
    Get(3, 555, "df", {"name", "email"}),
    Get(4, 562, "df", {"email"}),
    Get(4, 563, "df", {"name"}),
    Get(4, 566, "df", {"name"}),
    Get(4, 567, "df", {"email"}),
    Get(4, 570, "df", {"name"}),
    Get(4, 571, "df", {"name"}),
    Get(4, 572, "df", {"email"}),
    Get(4, 575, "df", {"name"}),
    Get(4, 576, "df", {"name"}),
    Get(4, 577, "df", {"name"}),
    Get(4, 578, "df", {"name"}),
    \* Pandas Regex Operations
    New(6, 614, "df", <<<<"text", "str">>>>),
    Get(6, 619, "df", {"text"}),
    Get(6, 620, "df", {"text"}),
    Get(6, 621, "df", {"text"}),
    Get(6, 624, "df", {"text"}),
    Get(6, 625, "df", {"text"}),
    Get(6, 626, "df", {"text"}),
    Get(6, 629, "df", {"text"}),
    Get(6, 630, "df", {"text"}),
    Get(6, 633, "df", {"text"}),
    \* Method Chaining (Pandas Tidy Style)
    Derive(8, 661, "result", {"df"}, <<<<"name_clean", "str">>, <<"domain", "str">>,
               <<"has_gmail", "bool">>>>, {}, Of("df", {"name", "email"})),
    \* Performance Tips
    SetCol(9, 679, "df", <<<<"category", "cat">>>>, Of("df", {"category"})),
    SetCol(9, 683, "df", <<<<"has_email", "bool">>>>, Of("df", {"text"})),
    Derive(9, 690, "large_df", {"large_df"}, <<>>, {}, Of("large_df", {"text"})),
    SetCol(9, 691, "large_df", <<<<"clean", "str">>>>, Of("large_df", {"text"})),
    Derive(9, 694, "result", {}, <<<<"text", "str">>>>, {}, Of("df", {"text"}))
>>

(***************************************************************************)
(* The chapters run by SpecBook, and the session that runs them.           *)
(***************************************************************************)
Chapters ==
    [join |-> JoinChapter, agg |-> AggChapter, sort |-> SortChapter,
     select |-> SelectChapter, string |-> StringChapter]

ChapterNames == DOMAIN Chapters

Prog == Chapters[chapter]

Halted == err # "none" \/ pc > Len(Prog)

NoTables == [v \in {} |-> 0]

ColNames(cs) == {cs[i][1] : i \in DOMAIN cs}

ColsOf(cs, l) ==
    [n \in ColNames(cs) |->
        [line |-> l, dtype |-> cs[CHOOSE i \in DOMAIN cs : cs[i][1] = n][2]]]

(* A table as the session sees it: for every column the line that last     *)
(* wrote it and its dtype, the line that last set the rows, the table as   *)
(* it was when the name was bound, and the cell and line that bound it.    *)
Table(cs, s) ==
    [cols |-> cs, rows |-> s.line, built |-> [cols |-> cs, rows |-> s.line],
     cell |-> s.cell, line |-> s.line, lit |-> s.op = "new"]

ReadVars(s) == s.uses \cup {r[1] : r \in s.reads}

(* pandas refuses to merge a numeric key column with a string key column *)
Numeric(d) == d \in {"int", "float"}

Mismatch(d1, d2) == (Numeric(d1) /\ d2 = "str") \/ (d1 = "str" /\ Numeric(d2))

(* The exception statement s raises in namespace e, "none" when it runs *)
Raises(e, s) ==
    IF \E v \in ReadVars(s) : v \notin DOMAIN e THEN "NameError"
    ELSE IF \E r \in s.reads : r[2] \notin DOMAIN e[r[1]].cols THEN "KeyError"
    ELSE IF \E q \in s.eq : Mismatch(e[q[1]].cols[q[2]].dtype, e[q[3]].cols[q[4]].dtype)
         THEN "ValueError"
    ELSE "none"

Inherited(e, s) ==
    LET inherited == UNION {DOMAIN e[b].cols : b \in s.bases} \ s.minus
    IN  [n \in inherited |->
            [line |-> s.line,
             dtype |-> e[CHOOSE b \in s.bases : n \in DOMAIN e[b].cols].cols[n].dtype]]

(* Effect, with a column assignment that replaces the table's columns *)
EffectAssignReplaces(e, s) ==
    CASE s.op = "new"    -> (s.var :> Table(ColsOf(s.cols, s.line), s)) @@ e
      [] s.op = "derive" -> (s.var :> Table(ColsOf(s.cols, s.line) @@ Inherited(e, s), s)) @@ e
      [] s.op = "setcol" -> [e EXCEPT ![s.var].cols = ColsOf(s.cols, s.line)]
      [] s.op = "rename" -> [e EXCEPT ![s.var].cols = ColsOf(s.cols, s.line)]
      [] s.op = "sortin" -> [e EXCEPT ![s.var].rows = s.line]
      [] OTHER           -> e

(* The namespace after statement s has run in namespace e *)
Effect(e, s) ==
    CASE s.op = "new"    -> (s.var :> Table(ColsOf(s.cols, s.line), s)) @@ e
      [] s.op = "derive" -> (s.var :> Table(ColsOf(s.cols, s.line) @@ Inherited(e, s), s)) @@ e
      [] s.op = "setcol" -> [e EXCEPT ![s.var].cols = ColsOf(s.cols, s.line) @@ @]
      [] s.op = "rename" -> [e EXCEPT ![s.var].cols = ColsOf(s.cols, s.line)]
      [] s.op = "sortin" -> [e EXCEPT ![s.var].rows = s.line]
      [] OTHER           -> e

(* Session, with a namespace that does not outlive the cell *)
SessionPerCell(e, s) ==
    [v \in {w \in DOMAIN e : e[w].cell = s.cell} |-> e[v]]

(* The namespace a statement runs in: the cells of a chapter run in one    *)
(* session, so a cell sees every name an earlier cell has bound.           *)
Session(e, s) == e

Running == pc <= Len(Prog) /\ err = "none"

Exec(o) ==
    /\ Running
    /\ Prog[pc].op = o
    /\ Raises(Session(env, Prog[pc]), Prog[pc]) = "none"
    /\ env' = Effect(Session(env, Prog[pc]), Prog[pc])
    /\ pc' = pc + 1
    /\ UNCHANGED <<chapter, err, joinVars, pivotVars, topVars>>

ExecNew == Exec("new")

ExecDerive == Exec("derive")

ExecRead == Exec("read")

ExecSetCol == Exec("setcol")

ExecRename == Exec("rename")

ExecSortIn == Exec("sortin")

(* try: ... except: the exception is caught, the body's binding is skipped *)
Caught ==
    /\ Running
    /\ Prog[pc].try
    /\ Raises(Session(env, Prog[pc]), Prog[pc]) # "none"
    /\ env' = Session(env, Prog[pc])
    /\ pc' = pc + 1
    /\ UNCHANGED <<chapter, err, joinVars, pivotVars, topVars>>

(* An uncaught exception ends the run at the statement that raised it *)
Uncaught ==
    /\ Running
    /\ ~Prog[pc].try
    /\ Raises(Session(env, Prog[pc]), Prog[pc]) # "none"
    /\ err' = Raises(Session(env, Prog[pc]), Prog[pc])
    /\ UNCHANGED <<chapter, pc, env, joinVars, pivotVars, topVars>>

IdleJoin ==
    /\ scen = "none" /\ df1 = <<>> /\ df2 = <<>> /\ by = <<>>
    /\ op = "none" /\ out = <<>> /\ printed = <<>>

IdlePivot ==
    /\ df = <<>> /\ names = <<>> /\ ran = "none"
    /\ wide = <<>> /\ shown = <<>> /\ raised = "none"

IdleTop == sample = <<>> /\ recipe = "none" /\ picked = <<>>

InitBook ==
    /\ chapter \in ChapterNames
    /\ pc = 1
    /\ env = NoTables
    /\ err = "none"
    /\ IdleJoin /\ IdlePivot /\ IdleTop

NextBook ==
    \/ ExecNew \/ ExecDerive \/ ExecRead \/ ExecSetCol \/ ExecRename \/ ExecSortIn
    \/ Caught \/ Uncaught

SpecBook == InitBook /\ [][NextBook]_vars

(***************************************************************************)
(* Properties of a chapter run.                                            *)
(***************************************************************************)
Binds(s) == s.op \in {"new", "derive"} /\ ~s.try

(* the example tables, bound by an earlier cell, that the next statement reads *)
EarlierTables ==
    IF Running
    THEN {v \in ReadVars(Prog[pc]) \cap DOMAIN env : env[v].lit /\ env[v].cell < Prog[pc].cell}
    ELSE {}

AsBuilt(t) == t.cols = t.built.cols /\ t.rows = t.built.rows

OnlyColumnsAdded(t) ==
    /\ \A c \in DOMAIN t.built.cols : c \in DOMAIN t.cols /\ t.cols[c] = t.built.cols[c]
    /\ t.rows = t.built.rows

C2_TableReadInOwnCell ==
    Running => \A v \in ReadVars(Prog[pc]) \cap DOMAIN env : env[v].cell = Prog[pc].cell

\* C2 (amended): a table lives from the statement that binds it to the end
\* of the chapter's run: every statement runs in a namespace that holds every
\* name bound by the statements before it, those of earlier cells and earlier
\* sections included, and each name is bound to a table of that cell or of a
\* later one that rebound it.
C2_TableOutlivesCell ==
    Running =>
        \A i \in 1..(pc - 1) :
            Binds(Prog[i]) =>
                /\ Prog[i].var \in DOMAIN Session(env, Prog[pc])
                /\ Session(env, Prog[pc])[Prog[i].var].cell >= Prog[i].cell

C2_witness ==
    /\ Running
    /\ Raises(Session(env, Prog[pc]), Prog[pc]) = "none"
    /\ \E v \in ReadVars(Prog[pc]) : env[v].cell < Prog[pc].cell

\* C3: in a run of a chapter's cells from top to bottom in a fresh session,
\* every variable and every column the code reads has been defined earlier in
\* that chapter, so no statement ends the run with a NameError or a KeyError.
C3_ReadsAreDefined == err \notin {"NameError", "KeyError"}

\* C4: when the join chapter's cells are run in order, the closing usage
\* example left_join(employees, departments, by='department_id') at line 512
\* runs without raising: both tables are bound and have the key column.
C4_UsageExampleSucceeds ==
    (chapter = "join" /\ Running /\ Prog[pc].line = 512) =>
        /\ Raises(Session(env, Prog[pc]), Prog[pc]) = "none"
        /\ "department_name" \in DOMAIN env["departments"].cols
        /\ "employee_id" \in DOMAIN env["employees"].cols

(***************************************************************************)
(* Part II.  The join recipes on concrete tables.                          *)
(*                                                                         *)
(* A table has its column names in order, a dtype per column, the index    *)
(* labels of its rows and the rows; a row maps a column to its value and   *)
(* has no entry for a column whose value is missing (NaN).                 *)
(***************************************************************************)
MaxRows == 2

MaxId == 2

Range(q) == {q[i] : i \in DOMAIN q}

RangeIndex(n) == [i \in 1..n |-> i - 1]

DataFrame(cs, dt, rs) ==
    [cols |-> cs, dtypes |-> dt, index |-> RangeIndex(Len(rs)), rows |-> rs]

(* the example tables of the join chapter *)
employees_1 ==
    DataFrame(<<"employee_id", "name", "department_id", "salary">>,
              [employee_id |-> "int", name |-> "str", department_id |-> "int", salary |-> "int"],
              <<[employee_id |-> 1, name |-> "Alice", department_id |-> 101, salary |-> 70000],
                [employee_id |-> 2, name |-> "Bob", department_id |-> 102, salary |-> 85000],
                [employee_id |-> 3, name |-> "Charlie", department_id |-> 101, salary |-> 65000],
                [employee_id |-> 4, name |-> "David", department_id |-> 103, salary |-> 72000],
                [employee_id |-> 5, name |-> "Eve", department_id |-> 102, salary |-> 90000]>>)

departments_1 ==
    DataFrame(<<"department_id", "department_name", "location">>,
              [department_id |-> "int", department_name |-> "str", location |-> "str"],
              <<[department_id |-> 101, department_name |-> "Sales", location |-> "New York"],
                [department_id |-> 102, department_name |-> "IT", location |-> "San Francisco"],
                [department_id |-> 103, department_name |-> "HR", location |-> "Chicago"],
                [department_id |-> 104, department_name |-> "Marketing", location |-> "Boston"]>>)

employees_2 ==
    DataFrame(<<"emp_id", "name", "dept_id", "manager_id">>,
              [emp_id |-> "int", name |-> "str", dept_id |-> "int", manager_id |-> "int"],
              <<[emp_id |-> 1, name |-> "Alice", dept_id |-> 10, manager_id |-> 3],
                [emp_id |-> 2, name |-> "Bob", dept_id |-> 20, manager_id |-> 3],
                [emp_id |-> 3, name |-> "Charlie", dept_id |-> 10, manager_id |-> 4],
                [emp_id |-> 4, name |-> "David", dept_id |-> 30, manager_id |-> 4]>>)

departments_2 ==
    DataFrame(<<"dept_id", "dept_name", "budget">>,
              [dept_id |-> "int", dept_name |-> "str", budget |-> "int"],
              <<[dept_id |-> 10, dept_name |-> "Sales", budget |-> 100000],
                [dept_id |-> 20, dept_name |-> "IT", budget |-> 150000],
                [dept_id |-> 30, dept_name |-> "HR", budget |-> 80000]>>)

customers ==
    DataFrame(<<"customer_id", "name", "city">>,
              [customer_id |-> "int", name |-> "str", city |-> "str"],
              <<[customer_id |-> 1, name |-> "Customer A", city |-> "NYC"],
                [customer_id |-> 2, name |-> "Customer B", city |-> "LA"],
                [customer_id |-> 3, name |-> "Customer C", city |-> "Chicago"],
                [customer_id |-> 4, name |-> "Customer D", city |-> "Houston"],
                [customer_id |-> 5, name |-> "Customer E", city |-> "Phoenix"]>>)

orders ==
    DataFrame(<<"order_id", "customer_id", "amount">>,
              [order_id |-> "int", customer_id |-> "int", amount |-> "int"],
              <<[order_id |-> 101, customer_id |-> 1, amount |-> 1000],
                [order_id |-> 102, customer_id |-> 2, amount |-> 1500],
                [order_id |-> 103, customer_id |-> 1, amount |-> 800],
                [order_id |-> 104, customer_id |-> 3, amount |-> 2000]>>)

df_int ==
    DataFrame(<<"id", "value">>, [id |-> "int", value |-> "int"],
              <<[id |-> 1, value |-> 100], [id |-> 2, value |-> 200],
                [id |-> 3, value |-> 300], [id |-> 4, value |-> 400]>>)

df_str ==
    DataFrame(<<"id", "category">>, [id |-> "str", category |-> "str"],
              <<[id |-> "1", category |-> "A"], [id |-> "2", category |-> "B"],
                [id |-> "3", category |-> "C"], [id |-> "5", category |-> "D"]>>)

main_df ==
    DataFrame(<<"id", "name">>, [id |-> "int", name |-> "str"],
              <<[id |-> 1, name |-> "A"], [id |-> 2, name |-> "B"], [id |-> 2, name |-> "B2"],
                [id |-> 3, name |-> "C"], [id |-> 4, name |-> "D"]>>)

lookup_df ==
    DataFrame(<<"id", "value">>, [id |-> "int", value |-> "int"],
              <<[id |-> 1, value |-> 100], [id |-> 2, value |-> 200], [id |-> 3, value |-> 300],
                [id |-> 3, value |-> 350], [id |-> 5, value |-> 500]>>)

(* str(n) and int(s) on the ids in use *)
Digits == <<"1", "2", "3", "4", "5">>

IntToStr(n) == Digits[n]

StrToInt(x) == CHOOSE n \in DOMAIN Digits : Digits[n] = x

(* df[c] = df[c].astype(int) / astype(str) *)
AsType(t, c, d) ==
    [t EXCEPT !.dtypes[c] = d,
              !.rows = [i \in DOMAIN t.rows |->
                           [t.rows[i] EXCEPT ![c] =
                               IF d = "int" /\ t.dtypes[c] = "str" THEN StrToInt(@)
                               ELSE IF d = "str" /\ t.dtypes[c] = "int" THEN IntToStr(@)
                               ELSE @]]]

(* generated tables: key columns id and grp, one payload column *)
(* tables keyed like main_df and lookup_df, ids repeated or missing *)
GenIds == UNION {[1..n -> 1..MaxId] : n \in 0..MaxRows}

GenIdTable(ks, pay) ==
    DataFrame(<<"id", pay>>, ("id" :> "int") @@ (pay :> "int"),
              [i \in 1..Len(ks) |-> ("id" :> ks[i]) @@ (pay :> i)])

(* tables with two key columns, each holding one of two values *)
GenKeys == UNION {[1..n -> {1, 2} \X {1, 2}] : n \in 0..MaxRows}

GenTable(ks, pay) ==
    DataFrame(<<"id", "grp", pay>>, ("id" :> "int") @@ ("grp" :> "int") @@ (pay :> "int"),
              [i \in 1..Len(ks) |-> ("id" :> ks[i][1]) @@ ("grp" :> ks[i][2]) @@ (pay :> i)])

(***************************************************************************)
(* pd.merge                                                                *)
(***************************************************************************)
Fail(e) == [err |-> e, cols |-> <<>>, dtypes |-> <<>>, index |-> <<>>, rows |-> <<>>]

Ok(t) == [err |-> "none", cols |-> t.cols, dtypes |-> t.dtypes, index |-> t.index, rows |-> t.rows]

KeyOf(row, keys) == [i \in DOMAIN keys |-> row[keys[i]]]

SameDtypes(l, r, keys) == \A i \in DOMAIN keys : l.dtypes[keys[i]] = r.dtypes[keys[i]]

(* values of different dtypes are never equal (1 != '1') *)
KeyEq(l, r, keys, a, b) == SameDtypes(l, r, keys) /\ KeyOf(a, keys) = KeyOf(b, keys)

Positions(n) == [i \in 1..n |-> i]

MatchesIn(l, r, keys, a) ==
    SelectSeq(Positions(Len(r.rows)), LAMBDA j : KeyEq(l, r, keys, a, r.rows[j]))

MatchesOf(l, r, keys, b) ==
    SelectSeq(Positions(Len(l.rows)), LAMBDA i : KeyEq(l, r, keys, l.rows[i], b))

RECURSIVE Flat(_)
Flat(ss) == IF ss = <<>> THEN <<>> ELSE Head(ss) \o Flat(Tail(ss))

Mark(row, ind, m) == IF ind THEN row @@ ("_merge" :> m) ELSE row

InnerRows(l, r, keys, ind) ==
    Flat([i \in 1..Len(l.rows) |->
            LET m == MatchesIn(l, r, keys, l.rows[i])
            IN  [k \in 1..Len(m) |-> Mark(l.rows[i] @@ r.rows[m[k]], ind, "both")]])

(* LeftRows as a lookup: a left row is joined to its first match only *)
LeftRowsFirstMatch(l, r, keys, ind) ==
    Flat([i \in 1..Len(l.rows) |->
            LET m == MatchesIn(l, r, keys, l.rows[i])
            IN  IF m = <<>> THEN <<Mark(l.rows[i], ind, "left_only")>>
                ELSE <<Mark(l.rows[i] @@ r.rows[m[1]], ind, "both")>>])

LeftRows(l, r, keys, ind) ==
    Flat([i \in 1..Len(l.rows) |->
            LET m == MatchesIn(l, r, keys, l.rows[i])
            IN  IF m = <<>> THEN <<Mark(l.rows[i], ind, "left_only")>>
                ELSE [k \in 1..Len(m) |-> Mark(l.rows[i] @@ r.rows[m[k]], ind, "both")]])

RightRows(l, r, keys, ind) ==
    Flat([j \in 1..Len(r.rows) |->
            LET m == MatchesOf(l, r, keys, r.rows[j])
            IN  IF m = <<>> THEN <<Mark(r.rows[j], ind, "right_only")>>
                ELSE [k \in 1..Len(m) |-> Mark(l.rows[m[k]] @@ r.rows[j], ind, "both")]])

RightOnlyRows(l, r, keys, ind) ==
    Flat([j \in 1..Len(r.rows) |->
            IF MatchesOf(l, r, keys, r.rows[j]) = <<>>
            THEN <<Mark(r.rows[j], ind, "right_only")>> ELSE <<>>])

LexLess(a, b) ==
    \E i \in DOMAIN a : a[i] < b[i] /\ \A j \in 1..(i - 1) : a[j] = b[j]

RECURSIVE SortByKey(_, _)
SortByKey(rs, keys) ==
    IF rs = <<>> THEN <<>>
    ELSE LET q == SortByKey(SubSeq(rs, 1, Len(rs) - 1), keys)
             x == rs[Len(rs)]
             k == Cardinality({i \in DOMAIN q : ~LexLess(KeyOf(x, keys), KeyOf(q[i], keys))})
         IN  SubSeq(q, 1, k) \o <<x>> \o SubSeq(q, k + 1, Len(q))

(* outer: the union of the keys, sorted by key *)
OuterRows(l, r, keys, ind) ==
    SortByKey(LeftRows(l, r, keys, ind) \o RightOnlyRows(l, r, keys, ind), keys)

MergedCols(l, r, keys, ind) ==
    l.cols \o SelectSeq(r.cols, LAMBDA c : c \notin Range(keys))
           \o (IF ind THEN <<"_merge">> ELSE <<>>)

(* a column with a missing value no longer holds int64 *)
MergedDtypes(l, r, cs, rs) ==
    [c \in Range(cs) |->
        LET d == IF c = "_merge" THEN "cat"
                 ELSE IF c \in Range(l.cols) THEN l.dtypes[c] ELSE r.dtypes[c]
        IN  IF d = "int" /\ \E i \in DOMAIN rs : c \notin DOMAIN rs[i] THEN "float" ELSE d]

(* the columns other than the keys that both tables have *)
Overlap(l, r, keys) == (Range(l.cols) \cap Range(r.cols)) \ Range(keys)

(* suffixes=('_x', '_y') *)
Suffixed(c, over, sfx) == IF c \in over THEN c \o sfx ELSE c

WithSuffix(t, over, sfx) ==
    [cols   |-> [i \in DOMAIN t.cols |-> Suffixed(t.cols[i], over, sfx)],
     dtypes |-> [n \in {Suffixed(c, over, sfx) : c \in Range(t.cols)} |->
                    t.dtypes[CHOOSE c \in Range(t.cols) : Suffixed(c, over, sfx) = n]],
     index  |-> t.index,
     rows   |-> [i \in DOMAIN t.rows |->
                    [n \in {Suffixed(c, over, sfx) : c \in DOMAIN t.rows[i]} |->
                        t.rows[i][CHOOSE c \in DOMAIN t.rows[i] : Suffixed(c, over, sfx) = n]]]]

(* merge, without the check of the key dtypes *)
merge_unchecked(l0, r0, keys, how, ind) ==
    IF \E i \in DOMAIN keys : keys[i] \notin Range(l0.cols) \/ keys[i] \notin Range(r0.cols)
    THEN Fail("KeyError")
    ELSE LET l  == WithSuffix(l0, Overlap(l0, r0, keys), "_x")
             r  == WithSuffix(r0, Overlap(l0, r0, keys), "_y")
             rs == CASE how = "inner" -> InnerRows(l, r, keys, ind)
                     [] how = "left"  -> LeftRows(l, r, keys, ind)
                     [] how = "right" -> RightRows(l, r, keys, ind)
                     [] how = "outer" -> OuterRows(l, r, keys, ind)
             cs == MergedCols(l, r, keys, ind)
         IN  Ok(DataFrame(cs, MergedDtypes(l, r, cs, rs), rs))

merge(l0, r0, keys, how, ind) ==
    IF \E i \in DOMAIN keys : keys[i] \notin Range(l0.cols) \/ keys[i] \notin Range(r0.cols)
    THEN Fail("KeyError")
    ELSE IF \E i \in DOMAIN keys : Mismatch(l0.dtypes[keys[i]], r0.dtypes[keys[i]])
    THEN Fail("ValueError")
    ELSE LET l  == WithSuffix(l0, Overlap(l0, r0, keys), "_x")
             r  == WithSuffix(r0, Overlap(l0, r0, keys), "_y")
             rs == CASE how = "inner" -> InnerRows(l, r, keys, ind)
                     [] how = "left"  -> LeftRows(l, r, keys, ind)
                     [] how = "right" -> RightRows(l, r, keys, ind)
                     [] how = "outer" -> OuterRows(l, r, keys, ind)
             cs == MergedCols(l, r, keys, ind)
         IN  Ok(DataFrame(cs, MergedDtypes(l, r, cs, rs), rs))

(* a default taken from dplyr habits *)
DefaultHowLeft == "left"

(* pd.merge(df1, df2, on=key) without how *)
DefaultHow == "inner"

(***************************************************************************)
(* The tidyverse-style join functions of the chapter's last cell.  key is  *)
(* [list |-> the key was given as a list, keys |-> the key columns].       *)
(***************************************************************************)
Key(c) == [list |-> FALSE, keys |-> <<c>>]

KeyList(cs) == [list |-> TRUE, keys |-> cs]

inner_join(a, b, key) == merge(a, b, key.keys, "inner", FALSE)

left_join(a, b, key) == merge(a, b, key.keys, "left", FALSE)

right_join(a, b, key) == merge(a, b, key.keys, "right", FALSE)

full_join(a, b, key) == merge(a, b, key.keys, "outer", FALSE)

(* df[mask]: the rows whose mask is True, with their index labels *)
Filter(t, mask) ==
    LET ps == SelectSeq(Positions(Len(t.rows)), LAMBDA i : mask[i])
    IN  [cols |-> t.cols, dtypes |-> t.dtypes,
         index |-> [k \in 1..Len(ps) |-> t.index[ps[k]]],
         rows |-> [k \in 1..Len(ps) |-> t.rows[ps[k]]]]

(* df1[key].isin(df2[key]) for one row of df1 *)
IsIn(a, b, c, row) ==
    a.dtypes[c] = b.dtypes[c] /\ \E j \in DOMAIN b.rows : b.rows[j][c] = row[c]

(* df1[key].apply(tuple, axis=1).isin(df2[key].apply(tuple, axis=1)) *)
TupleIsIn(a, b, keys, row) ==
    \E j \in DOMAIN b.rows : KeyEq(a, b, keys, row, b.rows[j])

HasKeys(t, keys) == \A i \in DOMAIN keys : keys[i] \in Range(t.cols)

semi_join(a, b, key) ==
    IF ~HasKeys(a, key.keys) \/ ~HasKeys(b, key.keys) THEN Fail("KeyError")
    ELSE IF key.list
    THEN Ok(Filter(a, [i \in DOMAIN a.rows |-> TupleIsIn(a, b, key.keys, a.rows[i])]))
    ELSE Ok(Filter(a, [i \in DOMAIN a.rows |-> IsIn(a, b, key.keys[1], a.rows[i])]))

(* anti_join that lost its ~ *)
anti_join_unnegated(a, b, key) ==
    IF ~HasKeys(a, key.keys) \/ ~HasKeys(b, key.keys) THEN Fail("KeyError")
    ELSE IF key.list
    THEN Ok(Filter(a, [i \in DOMAIN a.rows |-> TupleIsIn(a, b, key.keys, a.rows[i])]))
    ELSE Ok(Filter(a, [i \in DOMAIN a.rows |-> IsIn(a, b, key.keys[1], a.rows[i])]))

anti_join(a, b, key) ==
    IF ~HasKeys(a, key.keys) \/ ~HasKeys(b, key.keys) THEN Fail("KeyError")
    ELSE IF key.list
    THEN Ok(Filter(a, [i \in DOMAIN a.rows |-> ~TupleIsIn(a, b, key.keys, a.rows[i])]))
    ELSE Ok(Filter(a, [i \in DOMAIN a.rows |-> ~IsIn(a, b, key.keys[1], a.rows[i])]))

(***************************************************************************)
(* SpecJoin: one of the chapter's recipes applied to a pair of tables.     *)
(***************************************************************************)
IdleBook == chapter = "none" /\ pc = 0 /\ env = NoTables /\ err = "none"

Scenario(n, a, b, k) == scen = n /\ df1 = a /\ df2 = b /\ by = k

InitJoin ==
    /\ IdleBook /\ IdlePivot /\ IdleTop
    /\ op = "none" /\ out = <<>> /\ printed = <<>>
    /\ \/ \E a \in GenKeys, b \in GenKeys, k \in {Key("id"), KeyList(<<"id", "grp">>)} :
              Scenario("generated", GenTable(a, "name"), GenTable(b, "value"), k)
       \/ \E a \in GenIds, b \in GenIds :
              \/ Scenario("generated_ids", GenIdTable(a, "name"), GenIdTable(b, "value"),
                          Key("id"))
              \/ Scenario("generated_str", GenIdTable(a, "name"),
                          AsType(GenIdTable(b, "value"), "id", "str"), Key("id"))
       \/ Scenario("basic", employees_1, departments_1, Key("department_id"))
       \/ Scenario("rebound", employees_2, departments_2, Key("department_id"))
       \/ Scenario("semi", customers, orders, Key("customer_id"))
       \/ Scenario("types", df_int, df_str, Key("id"))
       \/ Scenario("validation", main_df, lookup_df, Key("id"))

Apply(name, result) ==
    /\ op = "none"
    /\ op' = name
    /\ out' = result
    /\ UNCHANGED <<scen, df1, df2, by, printed, bookVars, pivotVars, topVars>>

(* pd.merge(employees, departments, on='department_id'), line 77 *)
MergeDefault == Apply("merge", merge(df1, df2, by.keys, DefaultHow, FALSE))

(* pd.merge(main_df, lookup_df, on='id', how='left', indicator=True), line 462 *)
MergeIndicator == Apply("merge_indicator", merge(df1, df2, by.keys, "left", TRUE))

InnerJoin == Apply("inner_join", inner_join(df1, df2, by))

LeftJoin == Apply("left_join", left_join(df1, df2, by))

RightJoin == Apply("right_join", right_join(df1, df2, by))

FullJoin == Apply("full_join", full_join(df1, df2, by))

SemiJoin == Apply("semi_join", semi_join(df1, df2, by))

AntiJoin == Apply("anti_join", anti_join(df1, df2, by))

Matched(n) == <<"Rows matched", n>>

JoinFailed == <<"Join failed due to type mismatch">>

(* try: result = pd.merge(df_int, df_str, on='id'); print(...) except: print(...) *)
TryMerge ==
    /\ op = "none"
    /\ op' = "try_merge"
    /\ LET r == merge(df1, df2, by.keys, DefaultHow, FALSE)
       IN  IF r.err = "none"
           THEN out' = r /\ printed' = Matched(Len(r.rows))
           ELSE out' = out /\ printed' = JoinFailed
    /\ UNCHANGED <<scen, df1, df2, by, bookVars, pivotVars, topVars>>

(* df_str['id'] = df_str['id'].astype(int), line 397 *)
ConvertKey ==
    /\ op = "try_merge"
    /\ HasKeys(df2, by.keys)
    /\ df2.dtypes[by.keys[1]] = "str"
    /\ op' = "astype"
    /\ df2' = AsType(df2, by.keys[1], "int")
    /\ UNCHANGED <<scen, df1, by, out, printed, bookVars, pivotVars, topVars>>

(* pd.merge(df_int, df_str, on='id', how='outer'), line 398 *)
MergeConverted ==
    /\ op = "astype"
    /\ op' = "merge_outer"
    /\ out' = merge(df1, df2, by.keys, "outer", FALSE)
    /\ UNCHANGED <<scen, df1, df2, by, printed, bookVars, pivotVars, topVars>>

NextJoin ==
    \/ MergeDefault \/ MergeIndicator
    \/ InnerJoin \/ LeftJoin \/ RightJoin \/ FullJoin \/ SemiJoin \/ AntiJoin
    \/ TryMerge \/ ConvertKey \/ MergeConverted

SpecJoin == InitJoin /\ [][NextJoin]_vars

(***************************************************************************)
(* Properties of the join recipes.                                         *)
(***************************************************************************)
Merged == out # <<>> /\ out.err = "none"

KeyTypesClash ==
    /\ HasKeys(df1, by.keys) /\ HasKeys(df2, by.keys)
    /\ \E i \in DOMAIN by.keys : Mismatch(df1.dtypes[by.keys[i]], df2.dtypes[by.keys[i]])

MergeOps == {"merge", "merge_indicator", "inner_join", "left_join", "right_join", "full_join"}

\* C5: a merge on a key column that holds integers in one table and strings
\* in the other raises instead of returning zero or some matches; the try
\* statement therefore prints 'Join failed due to type mismatch', binds no
\* result, and leaves both tables as they were.
C5_MismatchedMergeFails ==
    [][/\ (op' \in MergeOps /\ KeyTypesClash') => out'.err = "ValueError"
       /\ (op' = "try_merge" /\ KeyTypesClash) =>
              (printed' = JoinFailed /\ out' = out /\ df1' = df1 /\ df2' = df2)]_vars

C5_witness == op = "try_merge" /\ KeyTypesClash /\ printed = JoinFailed /\ scen = "types"

(* the part of an output row that came from table t, under t's own names *)
Part(row, t, sfx) ==
    LET over == Overlap(df1, df2, by.keys)
    IN  [c \in {d \in Range(t.cols) : Suffixed(d, over, sfx) \in DOMAIN row} |->
            row[Suffixed(c, over, sfx)]]

SameKeyRows(i) ==
    {j \in DOMAIN df2.rows : KeyOf(df2.rows[j], by.keys) = KeyOf(df1.rows[i], by.keys)}

OutRowsOf(i) == {k \in DOMAIN out.rows : Part(out.rows[k], df1, "_x") = df1.rows[i]}

RightOnlyCols ==
    {Suffixed(c, Overlap(df1, df2, by.keys), "_y") : c \in Range(df2.cols) \ Range(by.keys)}

CountMarked(m) == Cardinality({k \in DOMAIN out.rows : out.rows[k]["_merge"] = m})

\* C7: a left merge with indicator returns, for each left row, one output
\* row per right row with the same key (marked 'both', carrying that right
\* row), or exactly one output row marked 'left_only' with the right columns
\* missing when no right row matches, and nothing else; with a left row
\* matched twice the output is longer than the left table, and for main_df
\* and lookup_df it has 6 rows, 5 marked 'both' and 1 marked 'left_only'.
C7_LeftMergeMultipliesRows ==
    (op = "merge_indicator" /\ Merged) =>
        /\ \A i \in DOMAIN df1.rows :
              IF SameKeyRows(i) = {}
              THEN /\ Cardinality(OutRowsOf(i)) = 1
                   /\ \A k \in OutRowsOf(i) :
                         /\ out.rows[k]["_merge"] = "left_only"
                         /\ DOMAIN out.rows[k] \cap RightOnlyCols = {}
              ELSE /\ Cardinality(OutRowsOf(i)) = Cardinality(SameKeyRows(i))
                   /\ \A k \in OutRowsOf(i) : out.rows[k]["_merge"] = "both"
                   /\ \A j \in SameKeyRows(i) :
                         \E k \in OutRowsOf(i) : Part(out.rows[k], df2, "_y") = df2.rows[j]
        /\ DOMAIN out.rows = UNION {OutRowsOf(i) : i \in DOMAIN df1.rows}
        /\ (\E i \in DOMAIN df1.rows : Cardinality(SameKeyRows(i)) > 1) =>
               Len(out.rows) > Len(df1.rows)
        /\ scen = "validation" =>
               Len(out.rows) = 6 /\ CountMarked("both") = 5 /\ CountMarked("left_only") = 1

C7_witness ==
    /\ op = "merge_indicator" /\ Merged /\ scen = "validation"
    /\ Len(out.rows) > Len(df1.rows)
    /\ CountMarked("left_only") = 1

KeySet(t) == {KeyOf(t.rows[i], by.keys) : i \in DOMAIN t.rows}

\* C8: pd.merge without how is an inner join, and inner_join, left_join,
\* right_join and full_join return the keys the table states: the keys of the
\* result are the intersection of the two tables' keys for inner (and for a
\* merge without how), the left keys for left, the right keys for right and
\* the union for outer.
C8_JoinTypeKeys ==
    Merged =>
        /\ op \in {"merge", "inner_join"} => KeySet(out) = KeySet(df1) \cap KeySet(df2)
        /\ op = "left_join" => KeySet(out) = KeySet(df1)
        /\ op = "right_join" => KeySet(out) = KeySet(df2)
        /\ op = "full_join" => KeySet(out) = KeySet(df1) \cup KeySet(df2)

C8_witness ==
    /\ op = "merge" /\ Merged
    /\ KeySet(out) # {}
    /\ KeySet(df1) \ KeySet(df2) # {}
    /\ KeySet(df2) \ KeySet(df1) # {}

KeyOccurs(i) ==
    /\ SameDtypes(df1, df2, by.keys)
    /\ \E j \in DOMAIN df2.rows : KeyOf(df2.rows[j], by.keys) = KeyOf(df1.rows[i], by.keys)

Times(t, i) == Cardinality({k \in DOMAIN t.rows : t.index[k] = df1.index[i]})

KeepsOrder(t) == \A k \in 1..(Len(t.index) - 1) : t.index[k] < t.index[k + 1]

\* C9: semi_join returns exactly the rows of df1 whose key (the whole key
\* tuple for a list of key columns) occurs in df2 and anti_join exactly the
\* rows whose key does not; every df1 row appears in exactly one of the two
\* results, once, unchanged, in df1's order and with df1's columns only,
\* however many times its key occurs in df2.
C9_SemiAntiPartition ==
    (op \in {"semi_join", "anti_join"} /\ Merged) =>
        LET semi == IF op = "semi_join" THEN out ELSE semi_join(df1, df2, by)
            anti == IF op = "anti_join" THEN out ELSE anti_join(df1, df2, by)
        IN  /\ semi.cols = df1.cols /\ anti.cols = df1.cols
            /\ KeepsOrder(semi) /\ KeepsOrder(anti)
            /\ Len(semi.rows) + Len(anti.rows) = Len(df1.rows)
            /\ \A i \in DOMAIN df1.rows :
                  /\ Times(semi, i) = (IF KeyOccurs(i) THEN 1 ELSE 0)
                  /\ Times(anti, i) = (IF KeyOccurs(i) THEN 0 ELSE 1)
                  /\ \A k \in DOMAIN semi.rows :
                        semi.index[k] = df1.index[i] => semi.rows[k] = df1.rows[i]
                  /\ \A k \in DOMAIN anti.rows :
                        anti.index[k] = df1.index[i] => anti.rows[k] = df1.rows[i]

C9_witness ==
    /\ op = "anti_join" /\ Merged /\ by.list
    /\ Len(out.rows) = 1 /\ Len(df1.rows) = 2
    /\ \E i \in DOMAIN df1.rows : Cardinality(SameKeyRows(i)) = 2

(***************************************************************************)
(* Part III.  pivot, pivot_table and pivot_wider on concrete tables.       *)
(***************************************************************************)
MaxPivotRows == 3

(* the order in which pandas sorts the labels that occur in the examples *)
Collation ==
    <<"2024-01-01", "2024-01-02", "A", "B", "HR", "IT", "Sales", "height", "weight">>

Less(a, b, dtype) ==
    IF dtype = "int" THEN a < b
    ELSE (CHOOSE i \in DOMAIN Collation : Collation[i] = a)
             < (CHOOSE i \in DOMAIN Collation : Collation[i] = b)

(* tuples of labels, compared column by column *)
LabelLess(a, b, dtypes) ==
    \E i \in DOMAIN a : Less(a[i], b[i], dtypes[i]) /\ \A j \in 1..(i - 1) : a[j] = b[j]

RECURSIVE Sorted(_, _)
Sorted(labels, dtypes) ==
    IF labels = {} THEN <<>>
    ELSE LET least == CHOOSE a \in labels : \A b \in labels \ {a} : LabelLess(a, b, dtypes)
         IN  <<least>> \o Sorted(labels \ {least}, dtypes)

df_duplicates ==
    DataFrame(<<"date", "product", "sales">>,
              ("date" :> "str") @@ ("product" :> "str") @@ ("sales" :> "int"),
              << ("date" :> "2024-01-01") @@ ("product" :> "A") @@ ("sales" :> 100),
                 ("date" :> "2024-01-01") @@ ("product" :> "A") @@ ("sales" :> 50),
                 ("date" :> "2024-01-02") @@ ("product" :> "B") @@ ("sales" :> 200) >>)

df_test ==
    DataFrame(<<"id", "measurement", "value">>,
              ("id" :> "int") @@ ("measurement" :> "str") @@ ("value" :> "int"),
              << ("id" :> 1) @@ ("measurement" :> "height") @@ ("value" :> 180),
                 ("id" :> 1) @@ ("measurement" :> "weight") @@ ("value" :> 75),
                 ("id" :> 2) @@ ("measurement" :> "height") @@ ("value" :> 165),
                 ("id" :> 2) @@ ("measurement" :> "weight") @@ ("value" :> 60) >>)

(* tables shaped like df_duplicates: each row one of the two dates and one of *)
(* the two products                                                          *)
GenSales ==
    UNION {[1..n -> {"2024-01-01", "2024-01-02"} \X {"A", "B"}] : n \in 0..MaxPivotRows}

GenSalesTable(ks) ==
    DataFrame(<<"date", "product", "sales">>,
              ("date" :> "str") @@ ("product" :> "str") @@ ("sales" :> "int"),
              [i \in 1..Len(ks) |->
                  ("date" :> ks[i][1]) @@ ("product" :> ks[i][2]) @@ ("sales" :> 50 * i)])

Pair(row, index, columns) == <<KeyOf(row, index), row[columns]>>

Pairs(t, index, columns) == {Pair(t.rows[i], index, columns) : i \in DOMAIN t.rows}

Wide(t, index, columns, cell) ==
    LET ilabels == Sorted({KeyOf(t.rows[i], index) : i \in DOMAIN t.rows},
                          [k \in DOMAIN index |-> t.dtypes[index[k]]])
        clabels == Sorted({<<t.rows[i][columns]>> : i \in DOMAIN t.rows},
                          <<t.dtypes[columns]>>)
    IN  [err     |-> "none",
         names   |-> index,
         index   |-> ilabels,
         columns |-> [k \in DOMAIN clabels |-> clabels[k][1]],
         rows    |-> [k \in DOMAIN ilabels |->
                         [c \in {d \in {clabels[j][1] : j \in DOMAIN clabels} :
                                     <<ilabels[k], d>> \in Pairs(t, index, columns)} |->
                             cell[<<ilabels[k], c>>]]]]

(* the pivot that keeps the last of the rows of a pair *)
pivot_keep_last(t, index, columns, values) ==
    IF ~HasKeys(t, index \o <<columns, values>>) THEN Fail("KeyError")
    ELSE Wide(t, index, columns,
              [p \in Pairs(t, index, columns) |->
                  LET last == CHOOSE i \in DOMAIN t.rows :
                                 /\ Pair(t.rows[i], index, columns) = p
                                 /\ \A j \in DOMAIN t.rows :
                                       Pair(t.rows[j], index, columns) = p => j <= i
                  IN  t.rows[last][values]])

(* df.pivot(index=, columns=, values=): unstacking refuses an index with *)
(* fewer distinct (index, columns) labels than rows                       *)
pivot(t, index, columns, values) ==
    IF ~HasKeys(t, index \o <<columns, values>>) THEN Fail("KeyError")
    ELSE IF Cardinality(Pairs(t, index, columns)) < Len(t.rows) THEN Fail("ValueError")
    ELSE Wide(t, index, columns,
              [p \in Pairs(t, index, columns) |->
                  t.rows[CHOOSE i \in DOMAIN t.rows :
                             Pair(t.rows[i], index, columns) = p][values]])

RECURSIVE SumOf(_)
SumOf(xs) == IF xs = <<>> THEN 0 ELSE Head(xs) + SumOf(Tail(xs))

(* df.pivot_table(index=, columns=, values=, aggfunc='sum') *)
pivot_table_sum(t, index, columns, values) ==
    IF ~HasKeys(t, index \o <<columns, values>>) THEN Fail("KeyError")
    ELSE Wide(t, index, columns,
              [p \in Pairs(t, index, columns) |->
                  SumOf([k \in DOMAIN t.rows |->
                            IF Pair(t.rows[k], index, columns) = p
                            THEN t.rows[k][values] ELSE 0])])

(* .reset_index(): the index labels become the first columns *)
reset_index(w) ==
    [err   |-> "none",
     cols  |-> w.names \o w.columns,
     index |-> RangeIndex(Len(w.rows)),
     rows  |-> [k \in DOMAIN w.rows |->
                   [c \in Range(w.names) |->
                       w.index[k][CHOOSE j \in DOMAIN w.names : w.names[j] = c]]
                   @@ w.rows[k]]]

pivot_wider(t, names_from, values_from) ==
    LET id_cols == SelectSeq(t.cols, LAMBDA col : col \notin {names_from, values_from})
        w == pivot(t, id_cols, names_from, values_from)
    IN  IF w.err # "none" THEN w ELSE reset_index(w)

(***************************************************************************)
(* SpecPivot: a cell of the pivot chapter run on one table.                *)
(***************************************************************************)
DuplicateEntries == <<"Error", "Index contains duplicate entries, cannot reshape">>

Reshape(t, from, vals) == df = t /\ names = [names_from |-> from, values_from |-> vals]

InitPivot ==
    /\ IdleBook /\ IdleJoin /\ IdleTop
    /\ ran = "none" /\ wide = <<>> /\ shown = <<>> /\ raised = "none"
    /\ \/ Reshape(df_duplicates, "product", "sales")
       \/ Reshape(df_test, "measurement", "value")
       \/ \E ks \in GenSales : Reshape(GenSalesTable(ks), "product", "sales")

(* the cell 'Duplicate entries': pivot inside try / except ValueError, then *)
(* pivot_table with aggfunc='sum'                                           *)
EdgeCases ==
    /\ ran = "none" /\ ran' = "edge_cases"
    /\ LET tried == pivot(df, <<"date">>, "product", "sales")
           summed == pivot_table_sum(df, <<"date">>, "product", "sales")
       IN  IF tried.err \notin {"none", "ValueError"}
           THEN raised' = tried.err /\ shown' = shown /\ wide' = wide
           ELSE /\ shown' = (IF tried.err = "ValueError" THEN DuplicateEntries ELSE shown)
                /\ raised' = summed.err
                /\ wide' = (IF summed.err = "none" THEN summed ELSE wide)
    /\ UNCHANGED <<df, names, bookVars, joinVars, topVars>>

(* pivot_wider(df, names_from=, values_from=) *)
PivotWider ==
    /\ ran = "none" /\ ran' = "pivot_wider"
    /\ LET w == pivot_wider(df, names.names_from, names.values_from)
       IN  /\ raised' = w.err
           /\ wide' = (IF w.err = "none" THEN w ELSE wide)
    /\ UNCHANGED <<df, names, shown, bookVars, joinVars, topVars>>

NextPivot == EdgeCases \/ PivotWider

SpecPivot == InitPivot /\ [][NextPivot]_vars

(* two rows of the table carry the same labels in the index columns and in *)
(* the columns column                                                      *)
SharePair(t, index, columns) ==
    \E i, j \in DOMAIN t.rows :
        /\ i < j
        /\ t.rows[i][columns] = t.rows[j][columns]
        /\ \A k \in DOMAIN index : t.rows[i][index[k]] = t.rows[j][index[k]]

IdCols == SelectSeq(df.cols, LAMBDA col : col \notin {names.names_from, names.values_from})

\* C6: pivot raises ValueError exactly when two rows of the input share the
\* same (index, columns) pair and returns a table holding every input value
\* when all pairs are distinct; in the try cell the error is caught and
\* printed, and the input table is left unchanged.
C6_PivotRaisesOnDuplicates ==
    [][/\ (ran' = "edge_cases" /\ HasKeys(df, <<"date", "product", "sales">>)) =>
              /\ (shown' = DuplicateEntries) <=> SharePair(df, <<"date">>, "product")
              /\ raised' = "none"
              /\ df' = df
       /\ ran' = "pivot_wider" =>
              /\ (raised' = "ValueError") <=> SharePair(df, IdCols, names.names_from)
              /\ (raised' = "none") <=> ~SharePair(df, IdCols, names.names_from)
              /\ raised' = "none" =>
                     \A i \in DOMAIN df.rows : \E k \in DOMAIN wide'.rows :
                         /\ \A c \in Range(IdCols) : wide'.rows[k][c] = df.rows[i][c]
                         /\ df.rows[i][names.names_from] \in DOMAIN wide'.rows[k]
                         /\ wide'.rows[k][df.rows[i][names.names_from]]
                                = df.rows[i][names.values_from]
              /\ df' = df]_vars

C6_witness ==
    /\ ran = "edge_cases" /\ df = df_duplicates
    /\ shown = DuplicateEntries /\ raised = "none"
    /\ wide # <<>>

(***************************************************************************)
(* Part IV.  Top n per group: sort_values, then groupby(...).head(n).      *)
(***************************************************************************)
MaxSampleRows == 4
MaxX == 2

(* df of the aggregation chapter; performance is held in tenths *)
df_aggregation ==
    DataFrame(<<"department", "salary", "performance">>,
              ("department" :> "str") @@ ("salary" :> "int") @@ ("performance" :> "float"),
              << ("department" :> "Sales") @@ ("salary" :> 70000) @@ ("performance" :> 42),
                 ("department" :> "IT")    @@ ("salary" :> 85000) @@ ("performance" :> 45),
                 ("department" :> "HR")    @@ ("salary" :> 65000) @@ ("performance" :> 38),
                 ("department" :> "Sales") @@ ("salary" :> 72000) @@ ("performance" :> 40),
                 ("department" :> "IT")    @@ ("salary" :> 90000) @@ ("performance" :> 47),
                 ("department" :> "HR")    @@ ("salary" :> 68000) @@ ("performance" :> 39),
                 ("department" :> "Sales") @@ ("salary" :> 75000) @@ ("performance" :> 43),
                 ("department" :> "IT")    @@ ("salary" :> 88000) @@ ("performance" :> 46),
                 ("department" :> "HR")    @@ ("salary" :> 71000) @@ ("performance" :> 41) >>)

(* df of the sorting chapter *)
df_sorting ==
    DataFrame(<<"department", "salary", "performance">>,
              ("department" :> "str") @@ ("salary" :> "int") @@ ("performance" :> "float"),
              << ("department" :> "Sales") @@ ("salary" :> 70000) @@ ("performance" :> 42),
                 ("department" :> "IT")    @@ ("salary" :> 85000) @@ ("performance" :> 45),
                 ("department" :> "HR")    @@ ("salary" :> 65000) @@ ("performance" :> 38),
                 ("department" :> "Sales") @@ ("salary" :> 72000) @@ ("performance" :> 40),
                 ("department" :> "IT")    @@ ("salary" :> 90000) @@ ("performance" :> 47),
                 ("department" :> "HR")    @@ ("salary" :> 68000) @@ ("performance" :> 39) >>)

GenSample == UNION {[1..n -> {"Sales", "IT"} \X (1..MaxX)] : n \in 0..MaxSampleRows}

GenSampleTable(ks, col, x) ==
    DataFrame(<<col, x>>, (col :> "str") @@ (x :> "int"),
              [i \in 1..Len(ks) |-> (col :> ks[i][1]) @@ (x :> ks[i][2])])

(* the orders of the positions of t in which x never decreases (ascending) *)
(* or never increases; rows with equal x may come out in any order, the   *)
(* default kind of sort_values is 'quicksort'                              *)
RECURSIVE SortOrders(_, _, _, _)
SortOrders(t, x, ascending, left) ==
    IF left = {} THEN {<<>>}
    ELSE LET first == {i \in left : \A j \in left :
                           IF ascending THEN t.rows[i][x] <= t.rows[j][x]
                           ELSE t.rows[i][x] >= t.rows[j][x]}
         IN  UNION {{<<i>> \o o : o \in SortOrders(t, x, ascending, left \ {i})} : i \in first}

Reordered(t, order) ==
    [cols   |-> t.cols,
     dtypes |-> t.dtypes,
     index  |-> [k \in DOMAIN order |-> t.index[order[k]]],
     rows   |-> [k \in DOMAIN order |-> t.rows[order[k]]]]

(* df.sort_values(x, ascending=): every table the call can return *)
sort_values(t, x, ascending) ==
    {Reordered(t, o) : o \in SortOrders(t, x, ascending, DOMAIN t.rows)}

(* .groupby(col).head(n): the first n rows of each group, in the table's order *)
groupby_head(t, col, n) ==
    Filter(t, [i \in DOMAIN t.rows |->
                  Cardinality({j \in 1..i : t.rows[j][col] = t.rows[i][col]}) <= n])

(* sort_values(x, ascending=).groupby(col).head(n) *)
top_per_group(t, x, col, ascending, n) ==
    IF ~HasKeys(t, <<x, col>>) THEN {Fail("KeyError")}
    ELSE {Ok(groupby_head(s, col, n)) : s \in sort_values(t, x, ascending)}

(***************************************************************************)
(* SpecTop: one of the three top-n-per-group recipes applied to a table.   *)
(***************************************************************************)
InitTop ==
    /\ IdleBook /\ IdleJoin /\ IdlePivot
    /\ recipe = "none" /\ picked = <<>>
    /\ \/ sample = df_aggregation
       \/ sample = df_sorting
       \/ \E ks \in GenSample :
              \/ sample = GenSampleTable(ks, "col", "x")
              \/ sample = GenSampleTable(ks, "department", "performance")
              \/ sample = GenSampleTable(ks, "department", "salary")

Pick(name, results) ==
    /\ recipe = "none" /\ recipe' = name
    /\ picked' \in results
    /\ UNCHANGED <<sample, bookVars, joinVars, pivotVars>>

(* Best Practices Summary, row 'Top n per group' *)
TopNPerGroup == Pick("top_n_per_group", top_per_group(sample, "x", "col", TRUE, 3))

(* 'Keep only top performers in each department' *)
TopPerformers ==
    Pick("top_performers", top_per_group(sample, "performance", "department", FALSE, 2))

(* 'Top N per group' of the sorting chapter *)
TopPaid == Pick("top_paid", top_per_group(sample, "salary", "department", FALSE, 1))

NextTop == TopNPerGroup \/ TopPerformers \/ TopPaid

SpecTop == InitTop /\ [][NextTop]_vars

Group(t, col, g) == {t.index[i] : i \in {j \in DOMAIN t.rows : t.rows[j][col] = g}}

ValueAt(label, x) == sample.rows[CHOOSE i \in DOMAIN sample.rows : sample.index[i] = label][x]

(* the picked rows are, group by group, n rows (or the whole group) none of *)
(* which has a smaller x than a row of the group that was left out          *)
LargestPerGroup(x, col, n) ==
    \A g \in {sample.rows[i][col] : i \in DOMAIN sample.rows} :
        LET all == Group(sample, col, g)
            got == Group(picked, col, g)
        IN  /\ got \subseteq all
            /\ Cardinality(got) = (IF Cardinality(all) < n THEN Cardinality(all) ELSE n)
            /\ \A p \in got : \A u \in all \ got : ValueAt(p, x) >= ValueAt(u, x)

\* C10: the table's recipe df.sort_values('x').groupby('col').head(3) returns,
\* for every group of col, the 3 rows of the group with the largest x, or
\* the whole group when it has fewer than 3 rows.
C10_TopNPerGroupIsLargest ==
    (recipe = "top_n_per_group" /\ picked.err = "none") => LargestPerGroup("x", "col", 3)

(* what the two recipes of the chapter bodies return *)
BodyRecipesPickLargest ==
    /\ (recipe = "top_performers" /\ picked.err = "none") =>
           LargestPerGroup("performance", "department", 2)
    /\ (recipe = "top_paid" /\ picked.err = "none") =>
           LargestPerGroup("salary", "department", 1)

(***************************************************************************)
(* Part V.  groupby(...).agg(...) and groupby(...)[col].transform(f).      *)
(* A mean is kept as the pair <<sum, count>>.                              *)
(***************************************************************************)
GroupLabels(t, g) == {t.rows[i][g] : i \in DOMAIN t.rows}

(* the values of col in the rows of t whose g is label, in row order *)
GroupValues(t, g, col, label) ==
    LET ps == SelectSeq(Positions(Len(t.rows)), LAMBDA i : t.rows[i][g] = label)
    IN  [k \in DOMAIN ps |-> t.rows[ps[k]][col]]

(* 'mean', 'sum', 'count' applied to the values of one group *)
Reduce(func, xs) ==
    CASE func = "mean"  -> <<SumOf(xs), Len(xs)>>
      [] func = "sum"   -> <<SumOf(xs), 1>>
      [] func = "count" -> <<Len(xs), 1>>

(* df.groupby(g).agg(name=(col, func)): indexed by the sorted group labels *)
groupby_agg(t, g, name, col, func) ==
    IF ~HasKeys(t, <<g, col>>) THEN Fail("KeyError")
    ELSE LET labels == Sorted({<<l>> : l \in GroupLabels(t, g)}, <<t.dtypes[g]>>)
         IN  [err    |-> "none",
              cols   |-> <<name>>,
              dtypes |-> (name :> "float"),
              index  |-> [k \in DOMAIN labels |-> labels[k][1]],
              rows   |-> [k \in DOMAIN labels |->
                             (name :> Reduce(func, GroupValues(t, g, col, labels[k][1])))]]

(* a transform that forgot the groups: f over the whole column *)
transform_ungrouped(t, g, col, func) ==
    [index  |-> t.index,
     values |-> [i \in DOMAIN t.rows |->
                    Reduce(func, [k \in DOMAIN t.rows |-> t.rows[k][col]])]]

(* df.groupby(g)[col].transform(func): a Series on the index of df *)
transform(t, g, col, func) ==
    [index  |-> t.index,
     values |-> [i \in DOMAIN t.rows |->
                    Reduce(func, GroupValues(t, g, col, t.rows[i][g]))]]

(* df[name] = series: the values are placed by index label *)
SetColumn(t, name, series, dtype) ==
    [cols   |-> IF name \in Range(t.cols) THEN t.cols ELSE Append(t.cols, name),
     dtypes |-> (name :> dtype) @@ t.dtypes,
     index  |-> t.index,
     rows   |-> [i \in DOMAIN t.rows |->
                    (name :> series.values[CHOOSE k \in DOMAIN series.index :
                                              series.index[k] = t.index[i]])
                    @@ t.rows[i]]]

group_by_summarize(t, groupby_cols, name, col, func) ==
    groupby_agg(t, groupby_cols, name, col, func)

(* one keyword name=(column, func) *)
group_by_mutate(t, groupby_cols, name, col, func) ==
    IF ~HasKeys(t, <<groupby_cols, col>>) THEN Fail("KeyError")
    ELSE Ok(SetColumn(t, name, transform(t, groupby_cols, col, func), "float"))

(***************************************************************************)
(* SpecGroup: the aggregate and transform cells run on one table.          *)
(***************************************************************************)
InitGroup ==
    /\ IdleBook /\ IdleJoin /\ IdlePivot
    /\ recipe = "none" /\ picked = <<>>
    /\ \/ sample = df_aggregation
       \/ \E ks \in GenSample : sample = GenSampleTable(ks, "department", "salary")

(* group_by_summarize(df, 'department', avg_salary=('salary', 'mean')) *)
GroupBySummarize ==
    Pick("group_by_summarize",
         {group_by_summarize(sample, "department", "avg_salary", "salary", "mean")})

(* df['dept_avg_salary'] = df.groupby('department')['salary'].transform('mean') *)
TransformCell ==
    /\ recipe = "none" /\ recipe' = "transform"
    /\ picked' = transform(sample, "department", "salary", "mean")
    /\ sample' = SetColumn(sample, "dept_avg_salary", picked', "float")
    /\ UNCHANGED <<bookVars, joinVars, pivotVars>>

(* group_by_mutate(df, 'department', name=('salary', func)) *)
GroupByMutate ==
    \E func \in {"mean", "sum", "count"} :
        Pick("group_by_mutate_" \o func,
             {group_by_mutate(sample, "department", "salary_" \o func, "salary", func)})

NextGroup == GroupBySummarize \/ TransformCell \/ GroupByMutate

SpecGroup == InitGroup /\ [][NextGroup]_vars

InGroupOf(i) == {j \in DOMAIN sample.rows : sample.rows[j]["department"] = sample.rows[i]["department"]}

(* v, a pair <<sum, count>>, is the mean of salary over the group of row i *)
IsGroupMean(v, i) ==
    v[1] * Cardinality(InGroupOf(i)) = v[2] * SumOf([j \in DOMAIN sample.rows |->
                                                  IF j \in InGroupOf(i)
                                                  THEN sample.rows[j]["salary"] ELSE 0])

\* C11: groupby(g).agg(...) returns exactly one row per distinct value of g;
\* groupby(g)[col].transform(f) returns one value per input row on the
\* input's index; for f = 'mean' each row's value is the mean of col over
\* the rows of its group.
C11_AggReducesTransformKeeps ==
    /\ recipe = "group_by_summarize" =>
           /\ Len(picked.rows) = Cardinality(GroupLabels(sample, "department"))
           /\ Range(picked.index) = GroupLabels(sample, "department")
    /\ recipe = "transform" =>
           /\ picked.index = sample.index
           /\ Len(picked.values) = Len(sample.rows)
           /\ \A i \in DOMAIN sample.rows :
                 /\ IsGroupMean(picked.values[i], i)
                 /\ sample.rows[i]["dept_avg_salary"] = picked.values[i]
    /\ recipe = "group_by_mutate_mean" =>
           /\ picked.index = sample.index
           /\ Len(picked.rows) = Len(sample.rows)
           /\ \A i \in DOMAIN sample.rows : IsGroupMean(picked.rows[i]["salary_mean"], i)

C11_witness ==
    /\ recipe = "transform"
    /\ Cardinality(GroupLabels(sample, "department")) = 2
    /\ Len(sample.rows) = 3
    /\ \E i, j \in DOMAIN sample.rows : picked.values[i][1] * picked.values[j][2]
                                           # picked.values[j][1] * picked.values[i][2]

(***************************************************************************)
(* Part VI.  Sorting a table with ties (section 'Stable Sorting').         *)
(***************************************************************************)
df_ties ==
    DataFrame(<<"group", "value", "order">>,
              ("group" :> "str") @@ ("value" :> "int") @@ ("order" :> "int"),
              << ("group" :> "A") @@ ("value" :> 10) @@ ("order" :> 1),
                 ("group" :> "B") @@ ("value" :> 10) @@ ("order" :> 2),
                 ("group" :> "A") @@ ("value" :> 20) @@ ("order" :> 3),
                 ("group" :> "B") @@ ("value" :> 20) @@ ("order" :> 4),
                 ("group" :> "A") @@ ("value" :> 10) @@ ("order" :> 5),
                 ("group" :> "B") @@ ("value" :> 20) @@ ("order" :> 6) >>)

(* tables shaped like df_ties: group alternates, 'order' numbers the rows *)
GenTies == UNION {[1..n -> 1..MaxX] : n \in 0..MaxSampleRows}

GenTiesTable(vs) ==
    DataFrame(<<"group", "value", "order">>,
              ("group" :> "str") @@ ("value" :> "int") @@ ("order" :> "int"),
              [i \in 1..Len(vs) |->
                  ("group" :> (IF i % 2 = 1 THEN "A" ELSE "B"))
                  @@ ("value" :> vs[i]) @@ ("order" :> i)])

InitSort ==
    /\ IdleBook /\ IdleJoin /\ IdlePivot
    /\ recipe = "none" /\ picked = <<>>
    /\ \/ sample = df_ties
       \/ \E vs \in GenTies : sample = GenTiesTable(vs)

(* df_ties.sort_values('value') *)
SortByValue == Pick("sort_by_value", sort_values(sample, "value", TRUE))

(* df_ties.sort_values('order').sort_values('value') *)
SortTwice ==
    Pick("sort_twice",
         UNION {sort_values(s, "value", TRUE) : s \in sort_values(sample, "order", TRUE)})

NextSort == SortByValue \/ SortTwice

SpecSort == InitSort /\ [][NextSort]_vars

\* C12: sort_values on one column is stable: rows with equal sort-key values
\* keep their original relative order, so sorting by 'order' and then by
\* 'value' leaves the rows inside each tie of 'value' in ascending 'order'.
C12_SortIsStable ==
    recipe \in {"sort_by_value", "sort_twice"} =>
        \A k, l \in DOMAIN picked.rows :
            (k < l /\ picked.rows[k]["value"] = picked.rows[l]["value"]) =>
                /\ picked.index[k] < picked.index[l]
                /\ picked.rows[k]["order"] < picked.rows[l]["order"]

(* what sort_values('value') does promise: the rows of the table, by value *)
SortedByValue ==
    recipe \in {"sort_by_value", "sort_twice"} =>
        /\ Len(picked.rows) = Len(sample.rows)
        /\ Range(picked.index) = Range(sample.index)
        /\ \A k \in 1..(Len(picked.rows) - 1) :
               picked.rows[k]["value"] <= picked.rows[k + 1]["value"]

(***************************************************************************)
(* Part VII.  DataFrame.assign with values and callables.                  *)
(* A keyword is [name, callable, fn, cols, k]: fn applied to the columns   *)
(* cols (and the constant k) of a table, either by the caller before the   *)
(* call (callable = FALSE) or by assign itself (a lambda).                 *)
(***************************************************************************)
Value(n, fn, cs, c) == [name |-> n, callable |-> FALSE, fn |-> fn, cols |-> cs, k |-> c]

Lambda(n, fn, cs, c) == [name |-> n, callable |-> TRUE, fn |-> fn, cols |-> cs, k |-> c]

(* df of the 'Using assign()' section, as rebound at line 78 *)
df_mutate ==
    DataFrame(<<"first_name", "hours_worked", "hourly_rate", "department">>,
              ("first_name" :> "str") @@ ("hours_worked" :> "int")
                  @@ ("hourly_rate" :> "int") @@ ("department" :> "str"),
              << ("first_name" :> "Alice") @@ ("hours_worked" :> 40)
                     @@ ("hourly_rate" :> 50) @@ ("department" :> "Sales"),
                 ("first_name" :> "Bob") @@ ("hours_worked" :> 45)
                     @@ ("hourly_rate" :> 55) @@ ("department" :> "IT"),
                 ("first_name" :> "Charlie") @@ ("hours_worked" :> 38)
                     @@ ("hourly_rate" :> 48) @@ ("department" :> "HR"),
                 ("first_name" :> "David") @@ ("hours_worked" :> 42)
                     @@ ("hourly_rate" :> 52) @@ ("department" :> "Sales"),
                 ("first_name" :> "Eve") @@ ("hours_worked" :> 50)
                     @@ ("hourly_rate" :> 60) @@ ("department" :> "IT") >>)

df_demo ==
    DataFrame(<<"name", "email">>, ("name" :> "str") @@ ("email" :> "str"),
              << ("name" :> "  John Doe  ") @@ ("email" :> "john@email.com"),
                 ("name" :> "JANE SMITH") @@ ("email" :> "jane@gmail.com"),
                 ("name" :> "bob johnson") @@ ("email" :> "bob@yahoo.com") >>)

(* tables shaped like df: 40 or 50 hours, the rate alternating 50 and 60 *)
GenPayTable(ks) ==
    DataFrame(<<"hours_worked", "hourly_rate", "department">>,
              ("hours_worked" :> "int") @@ ("hourly_rate" :> "int") @@ ("department" :> "str"),
              [i \in 1..Len(ks) |->
                  ("hours_worked" :> 30 + 10 * ((ks[i][2] % 2) + 1))
                  @@ ("hourly_rate" :> (IF i % 2 = 1 THEN 50 ELSE 60))
                  @@ ("department" :> ks[i][1])])

(* .str.strip().str.lower().str.title() on the names of df_demo *)
StrClean ==
    ("  John Doe  " :> "John Doe") @@ ("JANE SMITH" :> "Jane Smith")
        @@ ("bob johnson" :> "Bob Johnson")

(* .str.extract(r'([^@]+)@')[0], .str.extract(r'@([^.]+)\.')[0] on its emails *)
StrUsername ==
    ("john@email.com" :> "john") @@ ("jane@gmail.com" :> "jane") @@ ("bob@yahoo.com" :> "bob")

StrDomain ==
    ("john@email.com" :> "email") @@ ("jane@gmail.com" :> "gmail")
        @@ ("bob@yahoo.com" :> "yahoo")

(* fn over the columns cs of t, row by row *)
Apply1(t, fn, cs, c, i) ==
    LET a == t.rows[i][cs[1]]
    IN  CASE fn = "mul"        -> a * t.rows[i][cs[2]]
          [] fn = "where_gt"   -> IF a > c THEN "High" ELSE "Standard"
          [] fn = "group_mean" -> Reduce("mean", GroupValues(t, cs[2], cs[1], t.rows[i][cs[2]]))
          [] fn = "sub_mean"   -> <<a * t.rows[i][cs[2]][2] - t.rows[i][cs[2]][1],
                                    t.rows[i][cs[2]][2]>>
          [] fn = "group_rank" ->
                 LET same == {j \in DOMAIN t.rows : t.rows[j][cs[2]] = t.rows[i][cs[2]]}
                 IN  <<2 * Cardinality({j \in same : t.rows[j][cs[1]] > a})
                          + Cardinality({j \in same : t.rows[j][cs[1]] = a}) + 1, 2>>
          [] fn = "clean"      -> StrClean[a]
          [] fn = "username"   -> StrUsername[a]
          [] fn = "domain"     -> StrDomain[a]
          [] fn = "is_gmail"   -> StrDomain[a] = "gmail"
          [] fn = "len"        -> Len(a)

DtypeOf(fn) ==
    CASE fn \in {"mul", "len"} -> "int"
      [] fn \in {"where_gt", "clean", "username", "domain"} -> "str"
      [] fn = "is_gmail" -> "bool"
      [] OTHER -> "float"

Evaluate(t, kw) ==
    [index |-> t.index, values |-> [i \in DOMAIN t.rows |-> Apply1(t, kw.fn, kw.cols, kw.k, i)]]

(* assign that hands every lambda the table it was called on *)
RECURSIVE assign_on_original(_, _, _)
assign_on_original(data, self, kwargs) ==
    IF kwargs = <<>> THEN Ok(data)
    ELSE LET kw == Head(kwargs)
         IN  IF ~HasKeys(self, kw.cols) THEN Fail("KeyError")
             ELSE assign_on_original(SetColumn(data, kw.name, Evaluate(self, kw), DtypeOf(kw.fn)),
                                     self, Tail(kwargs))

(* data = self.copy(); for k, v in kwargs.items(): data[k] = v(data) if   *)
(* callable(v) else v                                                     *)
RECURSIVE assign(_, _, _)
assign(data, self, kwargs) ==
    IF kwargs = <<>> THEN Ok(data)
    ELSE LET kw == Head(kwargs)
             on == IF kw.callable THEN data ELSE self
         IN  IF ~HasKeys(on, kw.cols) THEN Fail("KeyError")
             ELSE assign(SetColumn(data, kw.name, Evaluate(on, kw), DtypeOf(kw.fn)),
                         self, Tail(kwargs))

(* .filter([...]): the listed columns that exist, in the listed order *)
filter_items(t, items) ==
    LET cs == SelectSeq(items, LAMBDA c : c \in Range(t.cols))
    IN  [err    |-> t.err,
         cols   |-> cs,
         dtypes |-> [c \in Range(cs) |-> t.dtypes[c]],
         index  |-> t.index,
         rows   |-> [i \in DOMAIN t.rows |-> [c \in Range(cs) |-> t.rows[i][c]]]]

(***************************************************************************)
(* SpecAssign: one of the assign cells run on a table.                     *)
(***************************************************************************)
InitAssign ==
    /\ IdleBook /\ IdleJoin /\ IdlePivot
    /\ recipe = "none" /\ picked = <<>>
    /\ \/ sample = df_mutate
       \/ sample = df_demo
       \/ \E ks \in GenSample : sample = GenPayTable(ks)

(* df_transformed = df.assign(total_pay = lambda ..., pay_category = lambda ...) *)
Conditional ==
    Pick("conditional",
         {assign(sample, sample,
                 << Lambda("total_pay", "mul", <<"hours_worked", "hourly_rate">>, 0),
                    Lambda("pay_category", "where_gt", <<"total_pay">>, 2500) >>)})

(* df_grouped = df.assign(dept_avg_hours = ..., hours_vs_dept_avg = lambda ..., *)
(*                        dept_rank = lambda ...)                              *)
Grouped ==
    Pick("grouped",
         {assign(sample, sample,
                 << Value("dept_avg_hours", "group_mean", <<"hours_worked", "department">>, 0),
                    Lambda("hours_vs_dept_avg", "sub_mean",
                           <<"hours_worked", "dept_avg_hours">>, 0),
                    Lambda("dept_rank", "group_rank", <<"hourly_rate", "department">>, 0) >>)})

(* complex_result = df_demo.assign(name_clean = ..., ..., name_length = ...) *)
(*                         .filter([...])                                    *)
Complex ==
    Pick("complex",
         LET a == assign(sample, sample,
                         << Lambda("name_clean", "clean", <<"name">>, 0),
                            Lambda("username", "username", <<"email">>, 0),
                            Lambda("domain", "domain", <<"email">>, 0),
                            Lambda("is_gmail", "is_gmail", <<"email">>, 0),
                            Lambda("name_length", "len", <<"name_clean">>, 0) >>)
         IN  {IF a.err = "none"
              THEN filter_items(a, <<"name_clean", "username", "domain", "is_gmail",
                                     "name_length">>)
              ELSE a})

NextAssign == Conditional \/ Grouped \/ Complex

SpecAssign == InitAssign /\ [][NextAssign]_vars

\* C13: within one assign call a lambda keyword is evaluated against the
\* table as extended by the keywords before it, so it reads a column made
\* earlier in the call (pay_category reads total_pay, hours_vs_dept_avg reads
\* dept_avg_hours, name_length reads name_clean) without an error, and the
\* table assign was called on is not changed.
C13_AssignLambdaSeesEarlierKeywords ==
    [][/\ (recipe' = "conditional" /\ HasKeys(sample, <<"hours_worked", "hourly_rate">>)) =>
              /\ picked'.err = "none"
              /\ \A i \in DOMAIN sample.rows :
                    /\ picked'.rows[i]["total_pay"]
                           = sample.rows[i]["hours_worked"] * sample.rows[i]["hourly_rate"]
                    /\ picked'.rows[i]["pay_category"]
                           = (IF sample.rows[i]["hours_worked"] * sample.rows[i]["hourly_rate"]
                                     > 2500
                              THEN "High" ELSE "Standard")
       /\ (recipe' = "grouped" /\ HasKeys(sample, <<"hours_worked", "hourly_rate", "department">>)) =>
              /\ picked'.err = "none"
              /\ \A i \in DOMAIN sample.rows :
                    LET m == picked'.rows[i]["dept_avg_hours"]
                        v == picked'.rows[i]["hours_vs_dept_avg"]
                    IN  v[1] * m[2] = (sample.rows[i]["hours_worked"] * m[2] - m[1]) * v[2]
       /\ (recipe' = "complex" /\ HasKeys(sample, <<"name", "email">>)) =>
              /\ picked'.err = "none"
              /\ \A i \in DOMAIN sample.rows :
                    picked'.rows[i]["name_length"] = Len(picked'.rows[i]["name_clean"])
       /\ recipe' \in {"conditional", "grouped", "complex"} => sample' = sample]_vars

C13_witness ==
    /\ recipe = "conditional" /\ picked.err = "none"
    /\ "total_pay" \notin Range(sample.cols)
    /\ \E i, j \in DOMAIN picked.rows :
           picked.rows[i]["pay_category"] = "High" /\ picked.rows[j]["pay_category"] = "Standard"

(***************************************************************************)
(* Part VIII.  Row binding: pd.concat over a list / a dictionary of tables.*)
(* A dictionary is the sequence of its <<key, table>> items in insertion   *)
(* order.                                                                  *)
(***************************************************************************)
(* the dictionary of the example *)
dfs_example ==
    << <<"a", DataFrame(<<"x", "y">>, ("x" :> "int") @@ ("y" :> "int"),
                        << ("x" :> 1) @@ ("y" :> 3), ("x" :> 2) @@ ("y" :> 4) >>)>>,
       <<"b", DataFrame(<<"x", "y">>, ("x" :> "int") @@ ("y" :> "int"),
                        << ("x" :> 5) @@ ("y" :> 7), ("x" :> 6) @@ ("y" :> 8) >>)>> >>

(* the k-th table of a generated dictionary, with n rows *)
GenBoundTable(k, n) ==
    DataFrame(<<"x", "y">>, ("x" :> "int") @@ ("y" :> "int"),
              [i \in 1..n |-> ("x" :> 4 * (k - 1) + i) @@ ("y" :> 4 * (k - 1) + i + 2)])

(* the keys 'a', 'b', 'c', some or all of them, in any insertion order *)
GenDictKeys ==
    {ks \in UNION {[1..n -> {"a", "b", "c"}] : n \in 1..3} :
        \A i, j \in DOMAIN ks : i # j => ks[i] # ks[j]}

GenDicts ==
    UNION {{[k \in DOMAIN ks |-> <<ks[k], GenBoundTable(k, ns[k])>>] :
                ns \in [DOMAIN ks -> 0..MaxRows]} : ks \in GenDictKeys}

RECURSIVE UnionCols(_)
UnionCols(ts) ==
    IF ts = <<>> THEN <<>>
    ELSE LET before == UnionCols(SubSeq(ts, 1, Len(ts) - 1))
         IN  before \o SelectSeq(ts[Len(ts)].cols, LAMBDA c : c \notin Range(before))

(* pd.concat(dfs, axis=0, ignore_index=True) over a list *)
concat_list(ts) ==
    LET rs == Flat([k \in DOMAIN ts |-> ts[k].rows])
        cs == UnionCols(ts)
    IN  [err    |-> "none",
         cols   |-> cs,
         dtypes |-> [c \in Range(cs) |->
                        ts[CHOOSE k \in DOMAIN ts : c \in Range(ts[k].cols)].dtypes[c]],
         names  |-> <<"none">>,
         index  |-> RangeIndex(Len(rs)),
         rows   |-> rs]

Reversed(q) == [k \in DOMAIN q |-> q[Len(q) + 1 - k]]

(* a concat that stacks the tables last to first *)
concat_dict_reversed(d) ==
    LET e  == Reversed(d)
        ts == [k \in DOMAIN e |-> e[k][2]]
    IN  [err    |-> "none",
         cols   |-> UnionCols(ts),
         dtypes |-> [c \in Range(UnionCols(ts)) |->
                        ts[CHOOSE k \in DOMAIN ts : c \in Range(ts[k].cols)].dtypes[c]],
         names  |-> <<"source", "none">>,
         index  |-> Flat([k \in DOMAIN e |->
                             [i \in DOMAIN ts[k].index |-> <<e[k][1], ts[k].index[i]>>]]),
         rows   |-> Flat([k \in DOMAIN e |-> ts[k].rows])]

(* pd.concat(dfs, axis=0, names=['source']) over a dictionary: the keys     *)
(* become the outer level of the index                                      *)
concat_dict(d) ==
    LET ts == [k \in DOMAIN d |-> d[k][2]]
        rs == Flat([k \in DOMAIN d |-> ts[k].rows])
        cs == UnionCols(ts)
    IN  [err    |-> "none",
         cols   |-> cs,
         dtypes |-> [c \in Range(cs) |->
                        ts[CHOOSE k \in DOMAIN ts : c \in Range(ts[k].cols)].dtypes[c]],
         names  |-> <<"source", "none">>,
         index  |-> Flat([k \in DOMAIN d |->
                             [i \in DOMAIN ts[k].index |-> <<d[k][1], ts[k].index[i]>>]]),
         rows   |-> rs]

(* .reset_index(level=0): the outer level becomes the first column *)
reset_index_level0(t) ==
    [err    |-> t.err,
     cols   |-> <<t.names[1]>> \o t.cols,
     dtypes |-> (t.names[1] :> "str") @@ t.dtypes,
     names  |-> Tail(t.names),
     index  |-> [i \in DOMAIN t.index |-> t.index[i][2]],
     rows   |-> [i \in DOMAIN t.rows |-> (t.names[1] :> t.index[i][1]) @@ t.rows[i]]]

(* .reset_index(drop=True) *)
reset_index_drop(t) ==
    [err    |-> t.err,
     cols   |-> t.cols,
     dtypes |-> t.dtypes,
     names  |-> <<"none">>,
     index  |-> RangeIndex(Len(t.rows)),
     rows   |-> t.rows]

(***************************************************************************)
(* SpecBind: the row-binding cells run on one dictionary of tables.        *)
(***************************************************************************)
InitBind ==
    /\ IdleBook /\ IdleJoin /\ IdlePivot
    /\ recipe = "none" /\ picked = <<>>
    /\ sample \in {dfs_example} \cup GenDicts

(* result = pd.concat(dfs, axis=0, ignore_index=True), dfs the list of tables *)
BindList ==
    Pick("bind_list", {concat_list([k \in DOMAIN sample |-> sample[k][2]])})

(* result = pd.concat(dfs, axis=0, names=['source']) *)
BindDict == Pick("bind_dict", {concat_dict(sample)})

(* result = pd.concat(dfs, axis=0, names=['source'])                 *)
(*              .reset_index(level=0).reset_index(drop=True)         *)
KeyAsColumn ==
    Pick("key_as_column", {reset_index_drop(reset_index_level0(concat_dict(sample)))})

NextBind == BindList \/ BindDict \/ KeyAsColumn

SpecBind == InitBind /\ [][NextBind]_vars

(* the number of rows of the tables before the k-th *)
RowsBefore(k) == SumOf([j \in 1..(k - 1) |-> Len(sample[j][2].rows)])

\* C14: pd.concat over a dictionary of tables with names=['source'] stacks
\* the tables' rows in dictionary order and labels every row with the key of
\* its table as the outer index level 'source'; after reset_index(level=0)
\* and reset_index(drop=True) the key is an ordinary column 'source', the
\* index is 0..n-1 and the number of rows is the sum of the tables' rows.
C14_ConcatDictLabelsRows ==
    /\ recipe = "bind_dict" =>
           /\ picked.names[1] = "source"
           /\ Len(picked.rows) = RowsBefore(Len(sample) + 1)
           /\ \A k \in DOMAIN sample : \A i \in DOMAIN sample[k][2].rows :
                 /\ picked.index[RowsBefore(k) + i] = <<sample[k][1], sample[k][2].index[i]>>
                 /\ picked.rows[RowsBefore(k) + i] = sample[k][2].rows[i]
    /\ recipe = "key_as_column" =>
           /\ picked.cols = <<"source">> \o sample[1][2].cols
           /\ Len(picked.rows) = RowsBefore(Len(sample) + 1)
           /\ picked.index = [p \in 1..Len(picked.rows) |-> p - 1]
           /\ \A k \in DOMAIN sample : \A i \in DOMAIN sample[k][2].rows :
                 picked.rows[RowsBefore(k) + i]
                     = ("source" :> sample[k][1]) @@ sample[k][2].rows[i]

C14_witness ==
    /\ recipe = "key_as_column"
    /\ Len(sample) = 2 /\ sample[1][1] = "b" /\ sample[2][1] = "a"
    /\ Len(picked.rows) = 3
    /\ picked.rows[1]["source"] = "b" /\ picked.rows[3]["source"] = "a"

====
